---- MODULE Spec2Model ----
(***************************************************************************)
(* Model of the job control pipeline of pilot3, pilot/control/job.py:       *)
(* the stages retrieve, validate, create_data_payload, queue_monitor and    *)
(* job_monitor, the inter-stage queues, the control flags and the server    *)
(* update protocol (send_state, get_proper_state, is_final_update,          *)
(* handle_backchannel_command, get_debug_command).                          *)
(*                                                                         *)
(* Python strings that the code inspects character by character are         *)
(* sequences of one-character strings.                                      *)
(***************************************************************************)
EXTENDS Integers, Sequences, FiniteSets, TLC

VARIABLES
    fn,            \* the last call of a pure function: its name, inputs and result
    args,          \* the pilot arguments and configuration, fixed for a run
    job,           \* the Job objects, by job id
    q,             \* the queues, by name: sequences of job ids
    graceful_stop, \* args.graceful_stop
    abort_job,     \* args.abort_job
    job_aborted,   \* args.job_aborted
    signal,        \* args.signal is set
    environ,       \* os.environ: SERVER_UPDATE, PILOT_WRAP_UP, REACHED_MAXTIME
    traces,        \* traces.pilot
    rt,            \* retrieve(): position and local variables
    vpc,           \* validate(): position
    cpc,           \* create_data_payload(): position
    qm,            \* queue_monitor(): position and local variables
    jm,            \* job_monitor(): position and local variables
    collab,        \* the collaborating data and payload components
    world,         \* what the pilot's surroundings can do in this run
    server,        \* the terminal states the dispatcher has received, and "attempt"
                   \* once send_state was called for a terminal update, by job id
    last,          \* the last call of send_state: its inputs and result
    hist           \* what has happened so far: the completions retrieve() has seen, the
                   \* jobs queue_monitor() has released, the failed attempts in a row,
                   \* what proceed_with_getjob() answered last, the stage that
                   \* handled each job last, the attempts that passed
                   \* proceed_with_getjob() since the last completed job

fnVars == <<fn>>

flagVars == <<graceful_stop, abort_job, job_aborted, signal>>

stageVars == <<rt, vpc, cpc, qm, jm>>

vars == <<fn, world, args, job, q, graceful_stop, abort_job, job_aborted, signal, environ,
          traces, rt, vpc, cpc, qm, jm, collab, server, last, hist>>

-----------------------------------------------------------------------------
(* Bounds *)

\* number of fragments a raw server command is built from
MaxFrags == 3

\* number of job definitions the dispatcher hands out
MaxJobs == 2

\* the ceiling args.getjob_failures of a run
GetjobFailures == 2

-----------------------------------------------------------------------------
(* Python string operations on sequences of characters *)

\* sub in s
Contains(s, sub) ==
    \E i \in 1..(Len(s) - Len(sub) + 1) : SubSeq(s, i, i + Len(sub) - 1) = sub

\* s.startswith(p)
StartsWith(s, p) ==
    Len(s) >= Len(p) /\ SubSeq(s, 1, Len(p)) = p

\* s.replace(old, new) for a non-empty old: non-overlapping, left to right
RECURSIVE Replace(_, _, _)
Replace(s, old, new) ==
    IF Len(s) = 0 THEN <<>>
    ELSE IF StartsWith(s, old)
         THEN new \o Replace(SubSeq(s, Len(old) + 1, Len(s)), old, new)
         ELSE <<Head(s)>> \o Replace(Tail(s), old, new)

\* s.split(' ')[0]
RECURSIVE FirstWord(_)
FirstWord(s) ==
    IF Len(s) = 0 \/ Head(s) = " " THEN <<>>
    ELSE <<Head(s)>> \o FirstWord(Tail(s))

\* the words the code compares with
W_tail == <<"t", "a", "i", "l">>
W_ls == <<"l", "s">>
W_ps == <<"p", "s">>
W_gdb == <<"g", "d", "b">>
W_du == <<"d", "u">>
W_rm == <<"r", "m">>
W_foo == <<"f", "o", "o">>
W_debug == <<"d", "e", "b", "u", "g">>
W_debugoff == <<"d", "e", "b", "u", "g", "o", "f", "f">>
W_tobekilled == <<"t", "o", "b", "e", "k", "i", "l", "l", "e", "d">>
W_softkill == <<"s", "o", "f", "t", "k", "i", "l", "l">>
W_nocleanup == <<"n", "o", "c", "l", "e", "a", "n", "u", "p">>
W_NULL == <<"N", "U", "L", "L">>
W_semicolon == <<";">>
W_encsemicolon == <<"&", "#", "5", "9">>
W_comma == <<",">>
W_space == <<" ">>
W_arg == <<" ", "x">>

-----------------------------------------------------------------------------
(* get_proper_state *)

\* the internal pilot states
JobStates == {"new", "starting", "stagein", "running", "stageout", "holding", "finished", "failed"}

\* the values job.serverstate takes
ServerStates == {"", "starting", "running", "holding", "finished", "failed"}

\* a mutant that lets a requested state overwrite a terminal server state
get_proper_state_noabsorb(serverstate, state) ==
    IF serverstate = "" /\ state # "finished" /\ state # "failed" THEN "starting"
    ELSE IF state \in {"finished", "failed", "holding"} THEN state
    ELSE "running"

\* the new value of job.serverstate, which is also the value returned
get_proper_state(serverstate, state) ==
    IF serverstate \in {"finished", "failed"} THEN serverstate
    ELSE IF serverstate = "" /\ state # "finished" /\ state # "failed" THEN "starting"
    ELSE IF state \in {"finished", "failed", "holding"} THEN state
    ELSE "running"

-----------------------------------------------------------------------------
(* get_debug_command *)

allowed_commands == {W_tail, W_ls, W_ps, W_gdb, W_du}
forbidden_commands == {W_rm}

\* cmd after the removal of a redundant 'debug,' or ',debug'
strip_debug(cmd) ==
    IF Contains(cmd, W_comma) /\ Contains(cmd, W_debug)
    THEN Replace(Replace(cmd, W_debug \o W_comma, <<>>), W_comma \o W_debug, <<>>)
    ELSE cmd

\* a mutant that forgets the ';' test
get_debug_command_nosemi(cmd) ==
    LET c == strip_debug(cmd)
        com == FirstWord(c)
    IN  IF com \notin allowed_commands THEN [debug_mode |-> FALSE, debug_command |-> <<>>]
        ELSE IF com \in forbidden_commands THEN [debug_mode |-> FALSE, debug_command |-> <<>>]
        ELSE [debug_mode |-> TRUE, debug_command |-> c]

\* (debug_mode, debug_command)
get_debug_command(cmd) ==
    LET c == strip_debug(cmd)
        com == FirstWord(c)
    IN  IF com \notin allowed_commands THEN [debug_mode |-> FALSE, debug_command |-> <<>>]
        ELSE IF Contains(c, W_semicolon) \/ Contains(c, W_encsemicolon)
             THEN [debug_mode |-> FALSE, debug_command |-> <<>>]
        ELSE IF com \in forbidden_commands THEN [debug_mode |-> FALSE, debug_command |-> <<>>]
        ELSE [debug_mode |-> TRUE, debug_command |-> c]

\* the fragments raw commands are built from
Frags == {W_tail, W_ls, W_ps, W_gdb, W_du, W_rm, W_foo, W_arg, W_space, W_semicolon,
          W_encsemicolon, W_debug \o W_comma, W_comma \o W_debug}

RECURSIVE CmdsUpTo(_)
CmdsUpTo(n) ==
    IF n = 0 THEN {<<>>}
    ELSE LET prev == CmdsUpTo(n - 1)
         IN  prev \cup {c \o f : c \in prev, f \in Frags}

RawCommands == CmdsUpTo(MaxFrags)

-----------------------------------------------------------------------------
(* Constants of the collaborating modules *)

\* pilot.common.errorcodes
NOLOCALSPACE == 1098
PANDAKILL == 1144
LOOPINGJOB == 1150
NOPROXY == 1163
NOVOMSPROXY == 1177
MKDIR == 1199
KILLSIGNAL == 1200
SIGTERM == 1201
REACHEDMAXTIME == 1213
PAYLOADEXECUTIONFAILURE == 1305
COMMUNICATIONFAILURE == 1324
KILLPAYLOAD == 1327
CERTIFICATEHASEXPIRED == 1356
VOMSPROXYABOUTTOEXPIRE == 1358
LEASETIME == 1367

\* the codes errors.is_recoverable() accepts
RecoverableCodes == {LOOPINGJOB}

\* pilot.util.constants
SERVER_UPDATE_NOT_DONE == "NOT_DONE"
SERVER_UPDATE_UPDATING == "UPDATING_FINAL"
SERVER_UPDATE_FINAL == "DONE_FINAL"
SERVER_UPDATE_TROUBLE == "LOST_HEARTBEAT"
LOG_TRANSFER_NOT_DONE == "NOT_DONE"
LOG_TRANSFER_IN_PROGRESS == "IN_PROGRESS"
LOG_TRANSFER_DONE == "DONE"
LOG_TRANSFER_FAILED == "FAILED"

-----------------------------------------------------------------------------
(* The Job object and the queues *)

Jobs == 1..MaxJobs

FinalStates == {"finished", "failed", "holding"}

\* a Job as create_job() leaves it: JobData defaults, errors reset
NewJob(indata) ==
    [state |-> "new", serverstate |-> "", completed |-> FALSE,
     piloterrorcode |-> 0, piloterrorcodes |-> <<>>,
     indata |-> indata, pid |-> FALSE, killed |-> FALSE, workdir |-> FALSE,
     stageout |-> "all", log_transfer |-> LOG_TRANSFER_NOT_DONE,
     debug |-> FALSE, debug_command |-> <<>>, analysis |-> FALSE]

\* no job object
NoJob == [NewJob(FALSE) EXCEPT !.state = ""]

QueueNames == {"jobs", "validated_jobs", "failed_jobs", "finished_jobs", "data_in",
               "current_data_in", "finished_data_in", "payloads", "monitored_payloads",
               "failed_payloads", "data_out", "completed_jobs", "completed_jobids"}

InQueue(x, s) == \E i \in 1..Len(s) : s[i] = x

\* put_in_queue(): the object is only put in the queue if it is not there already
put_in_queue(x, s) == IF InQueue(x, s) THEN s ELSE Append(s, x)

\* errors.add_error_code(): the list with the code added, unless it is there
add_error_code(codes, code) == IF InQueue(code, codes) THEN codes ELSE Append(codes, code)

abs(n) == IF n < 0 THEN 0 - n ELSE n

-----------------------------------------------------------------------------
(* The server update protocol *)

\* verify_error_code(): the job afterwards
verify_error_code(jr) ==
    LET j1 == IF jr.piloterrorcode = 0 /\ Len(jr.piloterrorcodes) > 0
              THEN [jr EXCEPT !.piloterrorcode = jr.piloterrorcodes[1]]
              ELSE jr
    IN  IF j1.piloterrorcode # 0 /\ j1.analysis /\ abs(j1.piloterrorcode) \in RecoverableCodes
        THEN [j1 EXCEPT !.piloterrorcode = 0 - abs(j1.piloterrorcode), !.state = "failed"]
        ELSE j1

\* is_final_update(): the returned flag, the job afterwards and whether
\* SERVER_UPDATE was set to UPDATING
is_final_update(jr, state) ==
    IF state \in {"finished", "failed", "holding"}
    THEN [final |-> TRUE,
          job |-> IF jr.piloterrorcode # 0 \/ Len(jr.piloterrorcodes) > 0
                  THEN [jr EXCEPT !.state = "failed"]
                  ELSE IF state # "finished" THEN verify_error_code(jr)
                  ELSE jr]
    ELSE [final |-> FALSE, job |-> jr]

\* a dispatcher response: None (ok is FALSE), or a dictionary with or without 'command'
NoResponse == [ok |-> FALSE, has_command |-> FALSE, command |-> <<>>]
PlainResponse == [ok |-> TRUE, has_command |-> FALSE, command |-> <<>>]
CommandResponse(c) == [ok |-> TRUE, has_command |-> TRUE, command |-> c]

\* a mutant that obeys a kill instruction whatever became of the working directory
kill_ignored_never(jr) ==
    FALSE

\* handle_backchannel_command(): is a kill instruction ignored? jr.workdir
\* stands for os.path.exists(job.workdir)
kill_ignored(jr) ==
    ~jr.workdir

\* a mutant that fails the killed job in every workflow
kill_state_failed(workflow) ==
    "failed"

\* handle_backchannel_command(): the state a kill instruction gives the job
kill_state(workflow) ==
    IF workflow = "stager" THEN "finished" ELSE "failed"

\* handle_backchannel_command(): the job afterwards, whether abort_job was set
\* and whether args.cleanup was turned off
handle_backchannel_command(res, jr, workflow) ==
    LET cmd == res.command
        same == [job |-> jr, abort |-> FALSE, nocleanup |-> FALSE]
    IN  IF ~(res.has_command /\ cmd # W_NULL) THEN same
        ELSE IF Contains(cmd, W_space) /\ ~Contains(cmd, W_tobekilled)
        THEN LET dc == get_debug_command(cmd)
             IN  [same EXCEPT !.job = [jr EXCEPT !.debug = dc.debug_mode,
                                                 !.debug_command = dc.debug_command]]
        ELSE IF Contains(cmd, W_tobekilled)
        THEN IF kill_ignored(jr) THEN same
             ELSE LET j1 == IF workflow = "stager"
                            THEN [jr EXCEPT !.state = kill_state(workflow)]
                            ELSE [jr EXCEPT !.state = kill_state(workflow),
                                            !.piloterrorcodes = add_error_code(@, PANDAKILL)]
                  IN  [job |-> [j1 EXCEPT !.killed = @ \/ jr.pid],
                       abort |-> TRUE, nocleanup |-> FALSE]
        ELSE IF Contains(cmd, W_softkill)
        THEN [same EXCEPT !.job = [jr EXCEPT !.debug_command = W_softkill]]
        ELSE IF Contains(cmd, W_debug)
        THEN [same EXCEPT !.job = [jr EXCEPT !.debug = TRUE, !.debug_command = W_debug]]
        ELSE IF Contains(cmd, W_debugoff)
        THEN [same EXCEPT !.job = [jr EXCEPT !.debug = FALSE, !.debug_command = W_debugoff]]
        ELSE IF Contains(cmd, W_nocleanup)
        THEN [same EXCEPT !.nocleanup = TRUE]
        ELSE same

\* a mutant that does not count holding as a completed state
completed_after_update_noholding(state, res) ==
    res.ok /\ state \in {"finished", "failed"}

\* send_state(): does the update set job.completed?
completed_after_update(state, res) ==
    res.ok /\ state \in {"finished", "holding", "failed"}

\* a mutant that sends 'running' for every pod
stager_pod_running_always(a, state) ==
    a.pod

\* send_state(): does a stager pod turn the state into 'running'?
stager_pod_running(a, state) ==
    state \notin {"finished", "holding", "failed"} /\ a.pod /\ a.workflow = "stager"

\* send_state(): the job afterwards, the state in the update, the returned
\* value, whether the update reached the dispatcher, the new SERVER_UPDATE
\* ("" when it is not set), and what handle_backchannel_command() asked for.
\* maxtime is os.environ['REACHED_MAXTIME'], res the dispatcher's answer and
\* written the result of writing the update to a file instead.
send_state(jr, a, state0, maxtime, res, written) ==
    LET j1 == IF maxtime
              THEN [jr EXCEPT !.piloterrorcodes = add_error_code(@, REACHEDMAXTIME),
                              !.state = "failed"]
              ELSE jr
        s1 == IF maxtime THEN "failed" ELSE state0
        s2 == get_proper_state(j1.serverstate, s1)
        j2 == [j1 EXCEPT !.serverstate = s2]
        torunning == stager_pod_running(a, s2)
        state == IF torunning THEN "running" ELSE s2
        j3 == IF torunning THEN [j2 EXCEPT !.state = "running"] ELSE j2
        fu == is_final_update(j3, state)
        j4 == fu.job
        upd == IF fu.final THEN SERVER_UPDATE_UPDATING ELSE ""
        quiet == [job |-> j4, state |-> state, final |-> fu.final, ret |-> written,
                  sent |-> FALSE, server_update |-> upd, abort |-> FALSE, nocleanup |-> FALSE]
    IN  IF ~a.update_server THEN quiet
        ELSE IF a.pandajob # "real" THEN [quiet EXCEPT !.ret = TRUE]
        ELSE IF res.ok
        THEN LET bc == handle_backchannel_command(res, j4, a.workflow)
                 j5 == bc.job
             IN  [job |-> [j5 EXCEPT !.completed = @ \/ completed_after_update(state, res)],
                  state |-> state, final |-> fu.final, ret |-> TRUE, sent |-> TRUE,
                  server_update |-> IF fu.final /\ j5.workdir THEN SERVER_UPDATE_FINAL ELSE upd,
                  abort |-> bc.abort, nocleanup |-> bc.nocleanup]
        ELSE [quiet EXCEPT !.ret = FALSE,
                           !.server_update = IF fu.final THEN SERVER_UPDATE_TROUBLE ELSE upd]

-----------------------------------------------------------------------------
(* State shared by the stages *)

\* os.environ as the pilot sets it up before the stages start
InitEnviron == [SERVER_UPDATE |-> SERVER_UPDATE_NOT_DONE, PILOT_WRAP_UP |-> "NORMAL",
                REACHED_MAXTIME |-> FALSE]

NoCall == [job |-> 0, requested |-> "", state |-> "", final |-> FALSE, ret |-> FALSE,
           sent |-> FALSE, by |-> "", completed_before |-> FALSE]

\* what a stage holds while it handles job j: the job, the flags, os.environ,
\* the dispatcher's record of the job and the record of the last call
World(j) ==
    [jr |-> job[j], abort_job |-> abort_job, cleanup |-> args.cleanup, environ |-> environ,
     srv |-> server[j], last |-> last]

\* what a call of send_state for job j by stage `by` leaves behind; r is the
\* outcome of send_state
Sent(w, j, requested, r, by) ==
    [jr |-> r.job,
     abort_job |-> w.abort_job \/ r.abort,
     cleanup |-> w.cleanup /\ ~r.nocleanup,
     environ |-> IF r.server_update = "" THEN w.environ
                 ELSE [w.environ EXCEPT !.SERVER_UPDATE = r.server_update],
     srv |-> w.srv \cup (IF r.final /\ r.state \in {"finished", "failed"}
                          THEN {"attempt"} ELSE {})
                   \cup (IF r.sent /\ r.state \in {"finished", "failed"}
                          THEN {r.state} ELSE {}),
     last |-> [job |-> j, requested |-> requested, state |-> r.state, final |-> r.final,
               ret |-> r.ret, sent |-> r.sent, by |-> by,
               completed_before |-> w.jr.completed]]

\* a call of send_state for job j by stage `by`
Send(w, j, requested, res, written, by) ==
    CHOOSE x \in {Sent(w, j, requested, r, by) :
                    r \in {send_state(w.jr, [args EXCEPT !.cleanup = w.cleanup], requested,
                                      w.environ.REACHED_MAXTIME, res, written)}} : TRUE

\* the caller is done with job j
Store(w, j) ==
    /\ job' = [job EXCEPT ![j] = w.jr]
    /\ abort_job' = w.abort_job
    /\ args' = [args EXCEPT !.cleanup = w.cleanup]
    /\ environ' = w.environ
    /\ server' = [server EXCEPT ![j] = w.srv]

\* the stage is done with job j; the calls of the stages are not recorded
Commit(w, j) ==
    /\ Store(w, j)
    /\ last' = last

\* should_abort() for a value of graceful_stop: it is set; after
\* REACHED_MAXTIME the stage may be given some more time
should_abort_for(gs) ==
    IF gs THEN (IF environ.REACHED_MAXTIME THEN BOOLEAN ELSE {TRUE}) ELSE {FALSE}

\* the stages that have not ended
running ==
    {s \in {"retrieve", "validate", "create_data_payload", "queue_monitor", "job_monitor"} :
        CASE s = "retrieve" -> rt.pc # "done"
          [] s = "validate" -> vpc # "done"
          [] s = "create_data_payload" -> cpc # "done"
          [] s = "queue_monitor" -> qm.pc # "done"
          [] OTHER -> jm.pc # "done"}

\* threads_aborted(): only the last thread running finds that the others have
\* ended; the threads of the other components may still be running
threads_aborted(caller) == IF running \subseteq {caller} THEN BOOLEAN ELSE {FALSE}

\* the jobs a queue, queue_monitor() or the data component still refers to
held(qs, qmjob, so) ==
    {j \in Jobs : j = qmjob \/ j = so \/ \E n \in QueueNames : InQueue(j, qs[n])}

\* the job objects after a step: an object nothing refers to is gone
collect(jobs, keep) == [j \in Jobs |-> IF j \in keep THEN jobs[j] ELSE NoJob]

\* the record of the updates of the jobs that are left
collected(srv, keep) == [j \in Jobs |-> IF j \in keep THEN srv[j] ELSE {}]

-----------------------------------------------------------------------------
(* retrieve *)

\* bound on the seconds between the start of retrieve() and a getjob attempt
MaxElapsed == 2

\* a mutant that waits a minute in harvester mode too
get_job_retrieval_delay_minute(harvester) == 60

\* get_job_retrieval_delay()
get_job_retrieval_delay(harvester) == IF harvester THEN 1 ELSE 60

\* the range of the wait loop after an explicit non-zero StatusCode
StatusCodeDelay == 60

\* a mutant that holds the first job to the time floor as well
proceed_with_getjob_floor_always(timefloor0, elapsed, jobnumber, getjob_requests, max_getjob_requests, update_server, push, harvester, verify_proxy, allow_timefloor, proxy_code, space_code, e, tr) ==
    LET timefloor == IF allow_timefloor THEN timefloor0 ELSE 0
        tr1 == IF verify_proxy /\ tr.error_code = 0 THEN [tr EXCEPT !.error_code = proxy_code]
               ELSE tr
        maximum_getjob_requests == IF harvester THEN 60 ELSE max_getjob_requests
        quickly == [e EXCEPT !.PILOT_WRAP_UP = "QUICKLY"]
    IN  IF verify_proxy /\ proxy_code \in {NOPROXY, NOVOMSPROXY, CERTIFICATEHASEXPIRED}
        THEN [ok |-> FALSE, environ |-> e, traces |-> tr1]
        ELSE IF ~(push /\ update_server) /\ space_code # 0
        THEN [ok |-> FALSE, environ |-> e, traces |-> [tr1 EXCEPT !.error_code = NOLOCALSPACE]]
        ELSE IF getjob_requests > maximum_getjob_requests
        THEN [ok |-> FALSE, environ |-> quickly, traces |-> tr1]
        ELSE IF timefloor = 0 /\ jobnumber > 0
        THEN [ok |-> FALSE, environ |-> quickly, traces |-> tr1]
        ELSE IF elapsed > timefloor
        THEN [ok |-> FALSE, environ |-> quickly, traces |-> tr1]
        ELSE IF e.SERVER_UPDATE = SERVER_UPDATE_UPDATING
        THEN [ok |-> FALSE, environ |-> e, traces |-> tr1]
        ELSE [ok |-> TRUE, environ |-> [e EXCEPT !.SERVER_UPDATE = SERVER_UPDATE_NOT_DONE],
              traces |-> tr1]

\* proceed_with_getjob(): the returned value, the new PILOT_WRAP_UP, the new
\* SERVER_UPDATE and the new traces.pilot['error_code']
proceed_with_getjob(timefloor0, elapsed, jobnumber, getjob_requests, max_getjob_requests, update_server, push, harvester, verify_proxy, allow_timefloor, proxy_code, space_code, e, tr) ==
    LET timefloor == IF allow_timefloor THEN timefloor0 ELSE 0
        tr1 == IF verify_proxy /\ tr.error_code = 0 THEN [tr EXCEPT !.error_code = proxy_code]
               ELSE tr
        maximum_getjob_requests == IF harvester THEN 60 ELSE max_getjob_requests
        quickly == [e EXCEPT !.PILOT_WRAP_UP = "QUICKLY"]
    IN  IF verify_proxy /\ proxy_code \in {NOPROXY, NOVOMSPROXY, CERTIFICATEHASEXPIRED}
        THEN [ok |-> FALSE, environ |-> e, traces |-> tr1]
        ELSE IF ~(push /\ update_server) /\ space_code # 0
        THEN [ok |-> FALSE, environ |-> e, traces |-> [tr1 EXCEPT !.error_code = NOLOCALSPACE]]
        ELSE IF getjob_requests > maximum_getjob_requests
        THEN [ok |-> FALSE, environ |-> quickly, traces |-> tr1]
        ELSE IF timefloor = 0 /\ jobnumber > 0
        THEN [ok |-> FALSE, environ |-> quickly, traces |-> tr1]
        ELSE IF elapsed > timefloor /\ jobnumber > 0
        THEN [ok |-> FALSE, environ |-> quickly, traces |-> tr1]
        ELSE IF e.SERVER_UPDATE = SERVER_UPDATE_UPDATING
        THEN [ok |-> FALSE, environ |-> e, traces |-> tr1]
        ELSE [ok |-> TRUE, environ |-> [e EXCEPT !.SERVER_UPDATE = SERVER_UPDATE_NOT_DONE],
              traces |-> tr1]

\* a mutant that stops one failure late
failures_reached_late(getjob_failures, ceiling) == getjob_failures > ceiling

\* retrieve(): has the number of failures reached args.getjob_failures?
failures_reached(getjob_failures, ceiling) == getjob_failures >= ceiling

\* a mutant that forgets the failures of before the last acquired job
failures_after_success_reset(getjob_failures) == 0

\* retrieve(): the failure counter after a job was acquired
failures_after_success(getjob_failures) == getjob_failures

\* a mutant that leaves abort_job alone when the gate is closed
abort_job_after_gate_kept(ok, aj) == aj

\* retrieve(): abort_job after proceed_with_getjob() has answered ok
abort_job_after_gate(ok, aj) == aj \/ ~ok

\* the top of the loop of retrieve() with graceful_stop set: the stage ends
RetrieveEnd ==
    /\ rt.pc = "loop"
    /\ graceful_stop
    /\ rt' = [rt EXCEPT !.pc = "done"]
    /\ \E ta \in threads_aborted("retrieve") : job_aborted' = (job_aborted \/ ta)
    /\ UNCHANGED <<fn, world, args, job, q, graceful_stop, abort_job, signal, environ, traces,
                   vpc, cpc, qm, jm, collab, server, last, hist>>

\* retrieve(): the handling of the result res of get_job_definition() in the
\* pass that made request number requests; h is the history with the pass
\* through the gate counted
TakeDefinition(res, requests, h) ==
    LET failures == rt.getjob_failures + 1
        j == rt.jobnumber + 1
    IN  IF res = "None"
        THEN /\ graceful_stop' = TRUE
             /\ rt' = [rt EXCEPT !.pc = "loop", !.getjob_requests = requests]
             /\ hist' = h
             /\ UNCHANGED <<job, q, abort_job>>
        ELSE IF res \in {"empty", "StatusCode"}
        THEN /\ IF failures_reached(failures, args.getjob_failures)
                THEN /\ graceful_stop' = TRUE
                     /\ rt' = [rt EXCEPT !.pc = "loop", !.getjob_requests = requests,
                                         !.getjob_failures = failures]
                ELSE /\ graceful_stop' = graceful_stop
                     /\ rt' = [rt EXCEPT
                          !.pc = IF res = "empty" THEN "backoff_empty" ELSE "backoff_status",
                          !.getjob_requests = requests,
                          !.getjob_failures = failures,
                          !.delay = IF res = "empty"
                                    THEN get_job_retrieval_delay(args.harvester)
                                    ELSE StatusCodeDelay,
                          !.i = 0]
             /\ hist' = [h EXCEPT !.streak = @ + 1]
             /\ UNCHANGED <<job, q, abort_job>>
        ELSE /\ rt.jobnumber < MaxJobs
             /\ job' = [job EXCEPT ![j] = NewJob(res = "job_indata")]
             /\ q' = [q EXCEPT !.jobs = put_in_queue(j, @)]
             /\ rt' = [rt EXCEPT !.pc = "wait_job", !.getjob_requests = requests,
                                 !.getjob_failures = failures_after_success(@),
                                 !.jobnumber = j, !.job = j]
             /\ hist' = [h EXCEPT !.streak = 0, !.at[j] = "retrieve"]
             /\ UNCHANGED <<graceful_stop, abort_job>>

\* one pass of the loop of retrieve(), from the gate to the handling of the
\* result of get_job_definition(); a pilot that subscribes to the message
\* broker goes on to wait for a message in get_job_definition()
RetrieveAttempt ==
    /\ rt.pc = "loop"
    /\ ~graceful_stop
    /\ \E elapsed \in world.elapsed, allow_timefloor \in world.allow_timefloor,
          proxy_code \in world.proxy_codes, space_code \in world.space_codes,
          res \in world.definitions :
        LET requests == rt.getjob_requests + 1
            gate == proceed_with_getjob(args.timefloor, elapsed, rt.jobnumber, requests,
                                        args.getjob_requests, args.update_server, args.push,
                                        args.harvester, args.verify_proxy,
                                        allow_timefloor, proxy_code, space_code, environ, traces)
        IN  /\ environ' = gate.environ
            /\ traces' = gate.traces
            /\ IF ~gate.ok
               THEN /\ graceful_stop' = TRUE
                    /\ abort_job' = abort_job_after_gate(gate.ok, abort_job)
                    /\ rt' = [rt EXCEPT !.pc = "loop", !.getjob_requests = requests]
                    /\ hist' = [hist EXCEPT !.gate = "closed"]
                    /\ UNCHANGED <<job, q>>
               ELSE IF args.subscribe_to_msgsvc
               THEN /\ rt' = [rt EXCEPT !.pc = "wait_message", !.getjob_requests = requests]
                    /\ hist' = [hist EXCEPT !.gate = "open", !.attempts = @ + 1]
                    /\ UNCHANGED <<job, q, graceful_stop, abort_job>>
               ELSE TakeDefinition(res, requests,
                                   [hist EXCEPT !.gate = "open", !.attempts = @ + 1])
    /\ UNCHANGED <<fn, world, args, job_aborted, signal, vpc, cpc, qm, jm, collab, server, last>>

\* a mutant that waits for a message also after graceful_stop is set
message_wait_over_onmessage(messages, stop) == Len(messages) > 0

\* get_job_definition(): is the wait for a message of the broker over?
message_wait_over(messages, stop) == Len(messages) > 0 \/ stop

\* get_job_definition() of a pilot that subscribes to the message broker: the
\* wait for a message ends with a message or with graceful_stop (either, when
\* both are there); only a get_job message leads to a download
RetrieveMessage ==
    /\ rt.pc = "wait_message"
    /\ message_wait_over(collab.messages, graceful_stop)
    /\ \/ /\ Len(collab.messages) > 0
          /\ collab' = [collab EXCEPT !.messages = Tail(@)]
          /\ \E res \in (IF Head(collab.messages).msg_type = "get_job"
                          THEN world.definitions ELSE {"None"}) :
                TakeDefinition(res, rt.getjob_requests, hist)
       \/ /\ graceful_stop
          /\ graceful_stop' = TRUE
          /\ rt' = [rt EXCEPT !.pc = "loop"]
          /\ UNCHANGED <<job, q, abort_job, hist, collab>>
    /\ UNCHANGED <<fn, world, args, job_aborted, signal, environ, traces, vpc, cpc, qm, jm,
                   server, last>>

\* a mutant that leaves the wait loop after a second
backoff_over_early(i, delay, stop) == i >= 1 \/ stop

\* retrieve(): is the wait loop 'for _ in range(delay)' over before pass i + 1?
backoff_over(i, delay, stop) == i = delay \/ stop

\* one pass of the wait loop after a failed attempt: a sleep of one second,
\* unless graceful_stop is set or the range is exhausted
RetrieveBackoff ==
    /\ rt.pc \in {"backoff_empty", "backoff_status"}
    /\ IF backoff_over(rt.i, rt.delay, graceful_stop)
       THEN rt' = [rt EXCEPT !.pc = "loop"]
       ELSE rt' = [rt EXCEPT !.i = @ + 1]
    /\ UNCHANGED <<fn, world, args, job, q, graceful_stop, abort_job, job_aborted, signal, environ,
                   traces, vpc, cpc, qm, jm, collab, server, last, hist>>

\* a mutant that takes the job for completed as soon as it is validated
completion_entry_early(qs) == qs.completed_jobs \o qs.validated_jobs

\* has_job_completed(): the queue the completion entry is taken from
completion_entry(qs) == qs.completed_jobs

\* queue_report(queues, purge=True): every queue is emptied
purged == [n \in QueueNames |-> <<>>]

\* a mutant that leaves the flag as it is
clear_not(flag) == flag

\* threading.Event.clear(), called by retrieve() for job_aborted and abort_job
clear(flag) == FALSE

\* a mutant that goes on counting the requests after a completed job
requests_after_completion_kept(getjob_requests) == getjob_requests

\* retrieve(): getjob_requests after the job has completed
requests_after_completion(getjob_requests) == 0

\* one pass of the loop in which retrieve() waits for the job to complete;
\* a pass that finds no completion entry changes nothing
RetrieveWait ==
    /\ rt.pc = "wait_job"
    /\ IF graceful_stop
       THEN /\ rt' = [rt EXCEPT !.pc = "loop"]
            /\ UNCHANGED <<job, q, abort_job, job_aborted, signal, hist, server>>
       ELSE /\ Len(completion_entry(q)) > 0
            /\ LET c == Head(completion_entry(q))
                   keep == held(purged, qm.job, collab.stageout)
               IN  /\ job' = collect([job EXCEPT ![c] = [@ EXCEPT !.piloterrorcode = 0,
                                                                  !.piloterrorcodes = <<>>,
                                                                  !.workdir = @ /\ ~args.cleanup]],
                                      keep)
                   /\ server' = collected(server, keep)
            /\ q' = purged
            /\ job_aborted' = clear(job_aborted)
            /\ abort_job' = clear(abort_job)
            /\ signal' = FALSE
            /\ hist' = [hist EXCEPT !.completions = @ + 1, !.attempts = 0]
            /\ rt' = [rt EXCEPT !.pc = "loop",
                                !.getjob_requests = requests_after_completion(@)]
    /\ UNCHANGED <<fn, world, args, graceful_stop, environ, traces, vpc, cpc, qm, jm, collab, last>>

-----------------------------------------------------------------------------
(* validate *)

\* the top of the loop of validate() with graceful_stop set: the stage ends
ValidateEnd ==
    /\ vpc = "loop"
    /\ graceful_stop
    /\ vpc' = "done"
    /\ \E ta \in threads_aborted("validate") : job_aborted' = (job_aborted \/ ta)
    /\ UNCHANGED <<fn, world, args, job, q, graceful_stop, abort_job, signal, environ, traces,
                   rt, cpc, qm, jm, collab, server, last, hist>>

\* a mutant that lets a job without disk space pass
delayed_space_check_lenient(jr, a, space_code) ==
    IF a.push /\ a.update_server /\ space_code # 0
    THEN [queue |-> "validated_jobs",
          job |-> [jr EXCEPT !.piloterrorcodes = add_error_code(@, NOLOCALSPACE)],
          error_code |-> NOLOCALSPACE]
    ELSE [queue |-> "validated_jobs", job |-> jr, error_code |-> 0]

\* delayed_space_check(): the queue the job is put in and the job afterwards
delayed_space_check(jr, a, space_code) ==
    IF a.push /\ a.update_server /\ space_code # 0
    THEN [queue |-> "failed_jobs",
          job |-> [jr EXCEPT !.piloterrorcodes = add_error_code(@, NOLOCALSPACE)],
          error_code |-> NOLOCALSPACE]
    ELSE [queue |-> "validated_jobs", job |-> jr, error_code |-> 0]

\* one pass of the loop of validate() that finds a job in the jobs queue
Validate ==
    /\ vpc = "loop"
    /\ ~graceful_stop
    /\ Len(q.jobs) > 0
    /\ \E valid \in world.valid, mkdir \in world.mkdir, space_code \in world.space_codes,
          ta \in threads_aborted("validate") :
        LET j == Head(q.jobs)
            q1 == [q EXCEPT !.jobs = Tail(@)]
            dsc == delayed_space_check([job[j] EXCEPT !.workdir = TRUE], args, space_code)
        IN  IF ~valid
            THEN /\ q' = [q1 EXCEPT !.failed_jobs = put_in_queue(j, @)]
                 /\ UNCHANGED <<job, traces, vpc, job_aborted>>
            ELSE IF ~mkdir
            THEN /\ job' = [job EXCEPT ![j] = [@ EXCEPT !.piloterrorcodes = add_error_code(@, MKDIR)]]
                 /\ traces' = [traces EXCEPT !.error_code = MKDIR]
                 /\ q' = [q1 EXCEPT !.failed_jobs = put_in_queue(j, @)]
                 /\ vpc' = "done"
                 /\ job_aborted' = (job_aborted \/ ta)
            ELSE /\ job' = [job EXCEPT ![j] = dsc.job]
                 /\ traces' = IF dsc.error_code # 0
                              THEN [traces EXCEPT !.error_code = dsc.error_code] ELSE traces
                 /\ q' = [q1 EXCEPT ![dsc.queue] = put_in_queue(j, @)]
                 /\ UNCHANGED <<vpc, job_aborted>>
    /\ hist' = [hist EXCEPT !.at[Head(q.jobs)] = "validate"]
    /\ UNCHANGED <<fn, world, args, graceful_stop, abort_job, signal, environ, rt, cpc, qm, jm,
                   collab, server, last>>

-----------------------------------------------------------------------------
(* create_data_payload *)

\* the top of the loop of create_data_payload() with graceful_stop set
CreateDataPayloadEnd ==
    /\ cpc = "loop"
    /\ graceful_stop
    /\ cpc' = "done"
    /\ \E ta \in threads_aborted("create_data_payload") : job_aborted' = (job_aborted \/ ta)
    /\ UNCHANGED <<fn, world, args, job, q, graceful_stop, abort_job, signal, environ, traces,
                   rt, vpc, qm, jm, collab, server, last, hist>>

\* a mutant that sends every job to stage-in
has_indata_always(jr) == TRUE

\* create_data_payload(): does the job declare input data?
has_indata(jr) == jr.indata

\* a mutant that also puts a job with input data in finished_data_in
routes_to_finished_data_in_always(jr) == TRUE

\* create_data_payload(): is stage-in taken for finished at once?
routes_to_finished_data_in(jr) == ~has_indata(jr)

\* a mutant that ends every pilot of the stager workflow
pilot_no_longer_needed_stager(a) == a.workflow = "stager"

\* create_data_payload(): is the pilot, with a job without input data, a
\* stager pod that reports the job as running and ends?
pilot_no_longer_needed(a) == a.pod /\ a.workflow = "stager"

\* one pass of the loop of create_data_payload() that finds a job in the
\* validated_jobs queue
CreateDataPayload ==
    /\ cpc = "loop"
    /\ ~graceful_stop
    /\ Len(q.validated_jobs) > 0
    /\ LET j == Head(q.validated_jobs)
           q1 == [q EXCEPT !.validated_jobs = Tail(@)]
           q2 == IF has_indata(job[j]) THEN [q1 EXCEPT !.data_in = put_in_queue(j, @)] ELSE q1
           q3 == IF routes_to_finished_data_in(job[j])
                 THEN [q2 EXCEPT !.finished_data_in = put_in_queue(j, @)] ELSE q2
           q4 == IF args.workflow # "stager"
                 THEN [q3 EXCEPT !.payloads = put_in_queue(j, @)] ELSE q3
           w0 == World(j)
       IN  /\ q' = q4
           /\ IF has_indata(job[j])
              THEN /\ Commit([w0 EXCEPT !.jr.state = "stagein"], j)
                   /\ UNCHANGED <<traces, job_aborted, graceful_stop>>
              ELSE IF pilot_no_longer_needed(args)
              THEN \E res \in world.responses, written \in world.written :
                   \E w1 \in {Send([w0 EXCEPT !.jr.state = "running"], j, "running", res,
                                   written, "create_data_payload")} :
                     /\ Commit(w1, j)
                     /\ traces' = IF w1.last.ret THEN traces
                                  ELSE [traces EXCEPT !.error_code = COMMUNICATIONFAILURE]
                     /\ job_aborted' = TRUE
                     /\ graceful_stop' = TRUE
              ELSE /\ Commit(w0, j)
                   /\ UNCHANGED <<traces, job_aborted, graceful_stop>>
    /\ hist' = [hist EXCEPT !.at[Head(q.validated_jobs)] = "create_data_payload"]
    /\ UNCHANGED <<fn, world, signal, rt, vpc, cpc, qm, jm, collab>>

-----------------------------------------------------------------------------
(* queue_monitor *)

\* the number of polls of order_log_transfer()
nmax == 60

\* a mutant that orders the transfer of the log of every failed job
log_transfer_ordered_always(log_transfer) == TRUE

\* get_finished_or_failed_job(): is the transfer of the log ordered?
log_transfer_ordered(log_transfer) == log_transfer = LOG_TRANSFER_NOT_DONE

\* a mutant that takes graceful_stop from the abort instruction alone
stop_on_abort_only(gs, command) == command = "abort"

\* queue_monitor(): graceful_stop after the test of the abort instruction
stop_on_abort(gs, command) == gs \/ command = "abort"

\* the first part of a pass of the loop of queue_monitor(): the abort
\* instruction, should_abort() and get_finished_or_failed_job(), up to the
\* wait of order_log_transfer()
QueueMonitorGet ==
    /\ qm.pc = "loop"
    /\ LET gs == stop_on_abort(graceful_stop, traces.command)
       IN  /\ graceful_stop' = gs
           /\ \E abort_thread \in should_abort_for(gs) :
                IF environ.PILOT_WRAP_UP # "NORMAL"
                THEN /\ qm' = [qm EXCEPT !.abort_thread = abort_thread,
                                         !.pc = IF qm.job = 0 /\ ~abort_thread
                                                THEN "loop" ELSE "final"]
                     /\ UNCHANGED <<job, q, job_aborted, server, hist>>
                ELSE IF Len(q.finished_jobs) > 0
                THEN LET j == Head(q.finished_jobs)
                         keep == held(q, j, collab.stageout)
                     IN  /\ job' = collect([job EXCEPT ![j] = [@ EXCEPT !.state = "finished"]],
                                            keep)
                         /\ server' = collected(server, keep)
                         /\ q' = [q EXCEPT !.finished_jobs = Tail(@)]
                         /\ qm' = [qm EXCEPT !.abort_thread = abort_thread, !.job = j,
                                             !.pc = "final"]
                         /\ hist' = [hist EXCEPT !.at[j] = "queue_monitor"]
                         /\ UNCHANGED job_aborted
                ELSE IF Len(q.failed_jobs) > 0
                THEN LET j == Head(q.failed_jobs)
                         order == log_transfer_ordered(job[j].log_transfer)
                         keep == held(q, j, collab.stageout)
                     IN  /\ job' = collect([job EXCEPT ![j] =
                                                [@ EXCEPT !.state = "failed",
                                                          !.stageout = IF order THEN "log" ELSE @]],
                                            keep)
                         /\ server' = collected(server, keep)
                         /\ q' = [q EXCEPT !.failed_jobs = Tail(@),
                                           !.data_out = IF order THEN put_in_queue(j, @) ELSE @]
                         /\ job_aborted' = TRUE
                         /\ qm' = [qm EXCEPT !.abort_thread = abort_thread, !.job = j, !.n = 0,
                                             !.pc = IF order THEN "logwait" ELSE "final"]
                         /\ hist' = [hist EXCEPT !.at[j] = "queue_monitor"]
                ELSE LET keep == held(q, 0, collab.stageout)
                     IN  /\ qm' = [qm EXCEPT !.abort_thread = abort_thread, !.job = 0,
                                             !.pc = IF abort_thread THEN "final" ELSE "loop"]
                         /\ job' = collect(job, keep)
                         /\ server' = collected(server, keep)
                         /\ UNCHANGED <<q, job_aborted, hist>>
    /\ UNCHANGED <<fn, world, args, abort_job, signal, environ, traces, rt, vpc, cpc, jm, collab,
                   last>>

\* a mutant that waits for a successful transfer only
log_transfer_over_doneonly(qs, log_transfer) ==
    Len(qs.data_out) = 0 /\ log_transfer = LOG_TRANSFER_DONE

\* order_log_transfer(): does the poll find the stage-out of the log completed?
log_transfer_over(qs, log_transfer) ==
    Len(qs.data_out) = 0 /\ log_transfer \in {LOG_TRANSFER_DONE, LOG_TRANSFER_FAILED}

\* a mutant that polls without a ceiling
polls_left_unbounded(n) == TRUE

\* order_log_transfer(): the condition of the wait loop
polls_left(n) == n < nmax

\* one poll of the wait loop of order_log_transfer(): the wait is over, or the
\* stage sleeps for two seconds
QueueMonitorPoll ==
    /\ qm.pc = "logwait"
    /\ IF polls_left(qm.n) /\ ~log_transfer_over(q, job[qm.job].log_transfer)
       THEN qm' = [qm EXCEPT !.n = @ + 1]
       ELSE qm' = [qm EXCEPT !.pc = "final"]
    /\ UNCHANGED <<fn, world, args, job, q, graceful_stop, abort_job, job_aborted, signal, environ,
                   traces, rt, vpc, cpc, jm, collab, server, last, hist>>

\* the rest of the pass: the final server update (update_server()), the
\* release of the job to retrieve(), and the end of the stage on abort
QueueMonitorFinal ==
    /\ qm.pc = "final"
    /\ LET j == qm.job
           handle == j # 0 /\ ~InQueue(j, q.completed_jobids)
       IN  /\ IF handle /\ ~job[j].completed
              THEN \E res \in world.responses, written \in world.written :
                   \E w1 \in {Send(World(j), j, job[j].state, res, written, "queue_monitor")} :
                     Commit(w1, j)
              ELSE UNCHANGED <<job, abort_job, args, environ, server, last>>
           /\ IF handle /\ (args.workflow = "stager" \/ Len(q.monitored_payloads) > 0)
              THEN /\ q' = [q EXCEPT
                        !.monitored_payloads = IF args.workflow # "stager" THEN Tail(@) ELSE @,
                        !.completed_jobids = put_in_queue(j, @),
                        !.completed_jobs = put_in_queue(j, @)]
                   /\ hist' = [hist EXCEPT !.released = @ \cup {j}, !.at[j] = "final"]
              ELSE /\ hist' = IF handle THEN [hist EXCEPT !.at[j] = "final"] ELSE hist
                   /\ UNCHANGED q
    /\ IF qm.abort_thread
       THEN /\ qm' = [qm EXCEPT !.pc = "done"]
            /\ \E ta \in threads_aborted("queue_monitor") : job_aborted' = (job_aborted \/ ta)
       ELSE /\ qm' = [qm EXCEPT !.pc = "loop"]
            /\ UNCHANGED job_aborted
    /\ UNCHANGED <<fn, world, graceful_stop, signal, traces, rt, vpc, cpc, jm, collab>>

-----------------------------------------------------------------------------
(* job_monitor *)

\* config.Pilot.heartbeat and config.Pilot.debug_heartbeat, in seconds
heartbeat == 1800
debug_heartbeat == 300

\* get_heartbeat_period()
get_heartbeat_period(debug) ==
    IF ~debug THEN heartbeat ELSE debug_heartbeat

\* send_heartbeat_if_time(): has a period passed at time now since update_time?
\* The period is that of debug mode when job.debug and job.debug_command hold.
heartbeat_due(jr, now, update_time) ==
    now - update_time >= get_heartbeat_period(jr.debug /\ jr.debug_command # <<>>)

\* send_heartbeat_if_time(): is a heartbeat sent? due: a period has passed
heartbeat_wanted(jr, due) ==
    /\ ~jr.completed
    /\ due
    /\ jr.serverstate # "finished" /\ jr.serverstate # "failed"
    /\ jr.state = "running"

\* send_heartbeat_if_time() for job j
send_heartbeat_if_time(w, j, due, res, written) ==
    IF heartbeat_wanted(w.jr, due) THEN Send(w, j, "running", res, written, "job_monitor")
    ELSE w

\* a mutant that keeps the time of the last heartbeat when the update failed
heartbeat_time_onsuccess(sends, ret, now, update_time) ==
    IF sends /\ ret THEN now ELSE update_time

\* send_heartbeat_if_time(): the returned update_time; sends: a heartbeat was
\* sent, ret: what send_state returned, now: the time after the call
heartbeat_time(sends, ret, now, update_time) ==
    IF sends THEN now ELSE update_time

\* preliminary_server_update(): the error codes are put aside for the update
preliminary_server_update(w, j, res, written) ==
    LET w1 == Send([w EXCEPT !.jr.piloterrorcode = 0, !.jr.piloterrorcodes = <<>>],
                   j, "running", res, written, "job_monitor")
    IN  [w1 EXCEPT !.jr.piloterrorcode = w.jr.piloterrorcode,
                   !.jr.piloterrorcodes = w.jr.piloterrorcodes]

\* download_new_proxy(): the returned exit code; ec is what
\* get_and_verify_proxy() reported
download_new_proxy(ec) == 0

\* a mutant that marks the job completed only after a successful update
completed_by_monitor_never(error_code) == FALSE

\* job_monitor(): the job is marked completed when an error code was
\* synthesized for a kill signal or for the batch system's time limit
completed_by_monitor(error_code) == error_code # 0

\* the top of the loop of job_monitor() when should_abort() holds
JobMonitorEnd ==
    /\ jm.pc = "loop"
    /\ TRUE \in should_abort_for(graceful_stop)
    /\ jm' = [jm EXCEPT !.pc = "done"]
    /\ \E ta \in threads_aborted("job_monitor") : job_aborted' = (job_aborted \/ ta)
    /\ UNCHANGED <<fn, world, args, job, q, graceful_stop, abort_job, signal, environ, traces,
                   rt, vpc, cpc, qm, collab, server, last, hist>>

\* a pass of the loop of job_monitor() while stage-in is going on: heartbeats
\* for the job in current_data_in
JobMonitorStaging ==
    /\ jm.pc = "loop"
    /\ FALSE \in should_abort_for(graceful_stop)
    /\ ~abort_job
    /\ Len(q.current_data_in) > 0
    /\ \E due \in world.due, res \in world.responses, written \in world.written :
        LET j == Head(q.current_data_in)
        IN  \E w1 \in {send_heartbeat_if_time(World(j), j, due, res, written)} :
              LET failed == w1.jr.state = "failed"
              IN  /\ Commit(IF failed THEN [w1 EXCEPT !.jr.stageout = "log"] ELSE w1, j)
                  /\ q' = IF failed THEN [q EXCEPT !.data_out = put_in_queue(j, @)] ELSE q
    /\ UNCHANGED <<fn, world, graceful_stop, job_aborted, signal, traces, rt, vpc, cpc, qm, jm,
                   collab, hist>>

\* a mutant that probes the payload also while stage-in is pending
staging_pending_never(qs, aj) == FALSE

\* job_monitor(): is the pass over before the monitored payloads are looked at?
staging_pending(qs, aj) ==
    ~aj /\ (Len(qs.current_data_in) > 0 \/ Len(qs.finished_data_in) = 0)

\* job_monitor(): the error code synthesized for a kill signal or for the batch
\* system's time limit, 0 when there is none
synthesized_error_code(aj, sig, maxtime) ==
    IF aj /\ sig THEN SIGTERM
    ELSE IF aj THEN 0
    ELSE IF maxtime THEN REACHEDMAXTIME
    ELSE 0

\* job_monitor(): the job is failed for a synthesized error code
fail_for_error_code(w, error_code) ==
    IF error_code # 0
    THEN [w EXCEPT !.jr.state = "failed",
                   !.jr.piloterrorcodes = add_error_code(@, error_code),
                   !.jr.completed = @ \/ completed_by_monitor(error_code),
                   !.jr.killed = @ \/ w.jr.pid]
    ELSE w

\* job_monitor(): what the exit code of job_monitor_tasks() leads to; ec is the
\* exit code after the attempt to download a new proxy
probe_outcome(exit_code, ec) ==
    IF exit_code = 0 THEN "ok"
    ELSE IF ec \in {KILLPAYLOAD, NOVOMSPROXY, CERTIFICATEHASEXPIRED} THEN "kill"
    ELSE IF ec = LEASETIME THEN "lease"
    ELSE IF ec = 0 THEN "refreshed"
    ELSE "fail"

\* a mutant whose fail_monitored_job() attaches the code and leaves the state
after_probe_codeonly(w, outcome, ec) ==
    IF outcome = "kill"
    THEN [w EXCEPT !.jr.piloterrorcodes = add_error_code(@, ec), !.jr.killed = @ \/ w.jr.pid]
    ELSE IF outcome = "lease"
    THEN [w EXCEPT !.jr.state = "finished", !.jr.stageout = "log"]
    ELSE IF outcome = "fail"
    THEN [w EXCEPT !.jr.piloterrorcodes = add_error_code(@, ec)]
    ELSE w

\* job_monitor(): the job after the handling of the exit code;
\* fail_monitored_job() for an exit code that is not handled otherwise
after_probe(w, outcome, ec) ==
    IF outcome = "kill"
    THEN [w EXCEPT !.jr.piloterrorcodes = add_error_code(@, ec), !.jr.killed = @ \/ w.jr.pid]
    ELSE IF outcome = "lease"
    THEN [w EXCEPT !.jr.state = "finished", !.jr.stageout = "log"]
    ELSE IF outcome = "fail"
    THEN [w EXCEPT !.jr.state = "failed", !.jr.piloterrorcodes = add_error_code(@, ec)]
    ELSE w

\* job_monitor(): the pass ends for a job that has finished or failed; a stager
\* pilot orders the stage-out of the log and leaves the loop
MonitorOver(w, j) ==
    /\ IF args.workflow = "stager"
       THEN /\ Commit([w EXCEPT !.jr.state = "finished", !.jr.stageout = "log"], j)
            /\ q' = [q EXCEPT !.data_out = put_in_queue(j, @)]
            /\ jm' = [jm EXCEPT !.pc = "done"]
            /\ \E ta \in threads_aborted("job_monitor") : job_aborted' = (job_aborted \/ ta)
       ELSE /\ Commit(w, j)
            /\ UNCHANGED <<q, jm, job_aborted>>
    /\ UNCHANGED traces

\* job_monitor(): the heartbeat that ends the pass, unless the handling of the
\* exit code has left the loop over the jobs
MonitorHeartbeat(w, j, outcome, ec, due, res, written) ==
    \E w4 \in {IF outcome \in {"ok", "lease"}
               THEN send_heartbeat_if_time(w, j, due, res, written) ELSE w} :
        LET failed == outcome \in {"ok", "lease"} /\ w4.jr.state = "failed"
        IN  /\ Commit(IF failed THEN [w4 EXCEPT !.jr.stageout = "log"] ELSE w4, j)
            /\ q' = [q EXCEPT
                 !.data_out = IF outcome = "lease" \/ failed THEN put_in_queue(j, @) ELSE @,
                 !.failed_payloads = IF outcome = "fail" THEN put_in_queue(j, @) ELSE @]
            /\ traces' = IF outcome = "fail" THEN [traces EXCEPT !.error_code = ec] ELSE traces
            /\ UNCHANGED <<jm, job_aborted>>

\* job_monitor(): job_monitor_tasks(), the preliminary update and the handling
\* of the exit code
MonitorProbe(w, j) ==
    \E exit_code \in world.probes, written \in world.written, due \in world.due :
    \E proxy_ec \in (IF exit_code = VOMSPROXYABOUTTOEXPIRE THEN world.proxy_codes ELSE {0}),
       res1 \in (IF exit_code # 0 THEN world.responses ELSE {NoResponse}) :
        LET ec == IF exit_code = VOMSPROXYABOUTTOEXPIRE
                  THEN download_new_proxy(proxy_ec) ELSE exit_code
            outcome == probe_outcome(exit_code, ec)
        IN  \E w2 \in {IF exit_code # 0
                       THEN preliminary_server_update(w, j, res1, written) ELSE w} :
            \E w3 \in {after_probe(w2, outcome, ec)} :
            \E res2 \in (IF outcome \in {"ok", "lease"} /\ heartbeat_wanted(w3.jr, due)
                         THEN world.responses ELSE {NoResponse}) :
              MonitorHeartbeat(w3, j, outcome, ec, due, res2, written)

\* a pass of the loop of job_monitor() that looks at the job in
\* monitored_payloads
JobMonitorPayload ==
    /\ jm.pc = "loop"
    /\ FALSE \in should_abort_for(graceful_stop)
    /\ ~staging_pending(q, abort_job)
    /\ Len(q.monitored_payloads) > 0
    /\ LET j == Head(q.monitored_payloads)
           error_code == synthesized_error_code(abort_job, signal, environ.REACHED_MAXTIME)
           w1 == fail_for_error_code(World(j), error_code)
       IN  /\ graceful_stop' = (graceful_stop \/ (~abort_job /\ environ.REACHED_MAXTIME))
           /\ IF w1.jr.state \in {"finished", "failed"}
              THEN MonitorOver(w1, j)
              ELSE MonitorProbe(w1, j)
    /\ UNCHANGED <<fn, world, signal, rt, vpc, cpc, qm, collab, hist>>

-----------------------------------------------------------------------------
(* The collaborating components: stage-in, payload execution, stage-out *)

STAGEINFAILED == 1099

\* stage-in starts for the job in data_in
StageInStart ==
    /\ Len(q.data_in) > 0
    /\ q' = [q EXCEPT !.data_in = Tail(@), !.current_data_in = put_in_queue(Head(q.data_in), @)]
    /\ hist' = [hist EXCEPT !.at[Head(q.data_in)] = "execution"]
    /\ UNCHANGED <<fn, world, args, job, graceful_stop, abort_job, job_aborted, signal, environ,
                   traces, rt, vpc, cpc, qm, jm, collab, server, last>>

\* stage-in ends: the job goes to finished_data_in, or it has failed
StageInEnd ==
    /\ Len(q.current_data_in) > 0
    /\ LET j == Head(q.current_data_in)
       IN  \E ok \in world.stagein :
            IF ok
            THEN /\ q' = [q EXCEPT !.current_data_in = Tail(@),
                                   !.finished_data_in = put_in_queue(j, @)]
                 /\ UNCHANGED job
            ELSE /\ q' = [q EXCEPT !.current_data_in = Tail(@),
                                   !.failed_jobs = put_in_queue(j, @)]
                 /\ job' = [job EXCEPT ![j] =
                        [@ EXCEPT !.state = "failed",
                                  !.piloterrorcodes = add_error_code(@, STAGEINFAILED)]]
    /\ hist' = [hist EXCEPT !.at[Head(q.current_data_in)] = "execution"]
    /\ UNCHANGED <<fn, world, args, graceful_stop, abort_job, job_aborted, signal, environ, traces,
                   rt, vpc, cpc, qm, jm, collab, server, last>>

\* the payload of the job in payloads starts once its stage-in has finished
PayloadStart ==
    /\ Len(q.payloads) > 0
    /\ LET j == Head(q.payloads)
       IN  /\ InQueue(j, q.finished_data_in)
           /\ job[j].state \notin {"finished", "failed"}
           /\ q' = [q EXCEPT !.payloads = Tail(@), !.monitored_payloads = put_in_queue(j, @)]
           /\ job' = [job EXCEPT ![j] = [@ EXCEPT !.state = "running", !.pid = TRUE]]
    /\ hist' = [hist EXCEPT !.at[Head(q.payloads)] = "execution"]
    /\ UNCHANGED <<fn, world, args, graceful_stop, abort_job, job_aborted, signal, environ, traces,
                   rt, vpc, cpc, qm, jm, collab, server, last>>

\* the payload of the monitored job ends and, after its stage-out, the job is
\* put in finished_jobs or in failed_jobs; the log may have been transferred
PayloadEnd ==
    /\ Len(q.monitored_payloads) > 0
    /\ LET j == Head(q.monitored_payloads)
       IN  /\ j \notin collab.ended
           /\ \E ok \in world.payload, log \in world.logs :
                LET state == IF job[j].state \in {"finished", "failed"} THEN job[j].state
                             ELSE IF ok /\ ~job[j].killed THEN "finished" ELSE "failed"
                    codes == IF job[j].state \notin {"finished", "failed"} /\ state = "failed"
                             THEN add_error_code(job[j].piloterrorcodes, PAYLOADEXECUTIONFAILURE)
                             ELSE job[j].piloterrorcodes
                IN  /\ job' = [job EXCEPT ![j] =
                           [@ EXCEPT !.state = state, !.piloterrorcodes = codes,
                                     !.log_transfer = IF @ = LOG_TRANSFER_NOT_DONE THEN log ELSE @]]
                    /\ q' = IF state = "finished"
                            THEN [q EXCEPT !.finished_jobs = put_in_queue(j, @)]
                            ELSE [q EXCEPT !.failed_jobs = put_in_queue(j, @)]
           /\ collab' = [collab EXCEPT !.ended = @ \cup {j}]
    /\ hist' = [hist EXCEPT !.at[Head(q.monitored_payloads)] = "execution"]
    /\ UNCHANGED <<fn, world, args, graceful_stop, abort_job, job_aborted, signal, environ, traces,
                   rt, vpc, cpc, qm, jm, server, last>>

\* the data component takes the job in data_out
StageOutGet ==
    /\ collab.stageout = 0
    /\ Len(q.data_out) > 0
    /\ collab' = [collab EXCEPT !.stageout = Head(q.data_out)]
    /\ q' = [q EXCEPT !.data_out = Tail(@)]
    /\ UNCHANGED <<fn, world, args, job, graceful_stop, abort_job, job_aborted, signal, environ,
                   traces, rt, vpc, cpc, qm, jm, server, last, hist>>

\* the data component ends the transfer of the log and records its status
StageOutEnd ==
    /\ collab.stageout # 0
    /\ \E status \in world.transfers :
        LET keep == held(q, qm.job, 0)
        IN  /\ job' = collect([job EXCEPT ![collab.stageout] = [@ EXCEPT !.log_transfer = status]],
                               keep)
            /\ server' = collected(server, keep)
    /\ collab' = [collab EXCEPT !.stageout = 0]
    /\ UNCHANGED <<fn, world, args, q, graceful_stop, abort_job, job_aborted, signal, environ,
                   traces, rt, vpc, cpc, qm, jm, last, hist>>

\* the pilot intercepts a kill signal
KillSignal ==
    /\ world.signal
    /\ ~signal
    /\ signal' = TRUE
    /\ abort_job' = TRUE
    /\ graceful_stop' = TRUE
    /\ traces' = [traces EXCEPT !.command = "abort"]
    /\ UNCHANGED <<fn, world, args, job, q, job_aborted, environ, rt, vpc, cpc, qm, jm, collab,
                   server, last, hist>>

\* the batch system's time limit is reached
ReachedMaxtime ==
    /\ world.maxtime
    /\ ~environ.REACHED_MAXTIME
    /\ environ' = [environ EXCEPT !.REACHED_MAXTIME = TRUE]
    /\ UNCHANGED <<fn, world, args, job, q, graceful_stop, abort_job, job_aborted, signal, traces,
                   rt, vpc, cpc, qm, jm, collab, server, last, hist>>

-----------------------------------------------------------------------------
(* message_listener and control *)

\* a mutant that sets graceful_stop for every kill_task message
stops_pilot_by_type(m) == m.msg_type = "kill_task"

\* message_listener(): `if message['kill_task']` for a message that has the
\* entry
stops_pilot(m) == m.kill_task = "true"

\* message_listener(): one pass of the loop for a message of the broker, or
\* the end of the loop when graceful_stop is set. A kill_task or finish_task
\* message is put in the messages queue and ends the loop; reading its entry
\* 'kill_task' raises KeyError when the message has none, and the thread
\* ends there. A get_job message is put in the queue and the loop goes on
MessageListener ==
    /\ args.subscribe_to_msgsvc
    /\ collab.listener = "loop"
    /\ IF graceful_stop
       THEN /\ collab' = [collab EXCEPT !.listener = "done"]
            /\ \E ta \in threads_aborted("message_listener") :
                  job_aborted' = (job_aborted \/ ta)
            /\ UNCHANGED graceful_stop
       ELSE \E m \in world.broker :
            IF m.msg_type = "get_job"
            THEN /\ collab' = [collab EXCEPT !.messages = put_in_queue(m, @)]
                 /\ UNCHANGED <<graceful_stop, job_aborted>>
            ELSE IF m.kill_task = "absent"
            THEN /\ collab' = [collab EXCEPT !.messages = put_in_queue(m, @),
                                             !.listener = "raised"]
                 /\ UNCHANGED <<graceful_stop, job_aborted>>
            ELSE /\ collab' = [collab EXCEPT !.messages = put_in_queue(m, @),
                                             !.listener = "done"]
                 /\ graceful_stop' = (graceful_stop \/ stops_pilot(m))
                 /\ \E ta \in threads_aborted("message_listener") :
                       job_aborted' = (job_aborted \/ ta)
    /\ UNCHANGED <<fn, world, args, job, q, abort_job, signal, environ, traces, rt, vpc, cpc, qm,
                   jm, server, last, hist>>

\* control(): the end of the function after a kill signal; without an abort
\* instruction the end of control() changes nothing but job_aborted
Control ==
    /\ graceful_stop
    /\ abort_job
    /\ traces.command = "abort"
    /\ traces' = [traces EXCEPT !.command = "aborting"]
    /\ \E ta \in threads_aborted("control") : job_aborted' = (job_aborted \/ ta)
    /\ UNCHANGED <<fn, world, args, job, q, graceful_stop, abort_job, signal, environ, rt, vpc,
                   cpc, qm, jm, collab, server, last, hist>>

-----------------------------------------------------------------------------
(* The specification of the stages *)

GenericConfig ==
    [workflow |-> "generic", pod |-> FALSE, update_server |-> TRUE, pandajob |-> "real",
     harvester |-> FALSE, push |-> FALSE, verify_proxy |-> FALSE,
     getjob_requests |-> 2, getjob_failures |-> GetjobFailures, timefloor |-> 1,
     cleanup |-> TRUE, subscribe_to_msgsvc |-> FALSE]

\* a pilot that listens to the message service
ListeningConfig ==
    [GenericConfig EXCEPT !.subscribe_to_msgsvc = TRUE]

\* a pilot of Harvester that asks the dispatcher for its jobs
HarvesterConfig ==
    [GenericConfig EXCEPT !.harvester = TRUE]

\* a pilot that bears more failed attempts than requests
PatientConfig ==
    [GenericConfig EXCEPT !.getjob_failures = GetjobFailures + 2]

\* a pilot of Harvester that bears more failed attempts than the 60 requests
\* of Harvester
PatientHarvesterConfig ==
    [HarvesterConfig EXCEPT !.getjob_failures = GetjobFailures + 60]

\* a site without a time floor: timefloor is 0
NoFloorConfig ==
    [GenericConfig EXCEPT !.timefloor = 0]

\* the stager workflow outside a pod
StagerConfig ==
    [GenericConfig EXCEPT !.workflow = "stager"]

StagerPodConfig ==
    [GenericConfig EXCEPT !.workflow = "stager", !.pod = TRUE]

\* harvester's push mode with a proxy to verify: the space check is made by
\* validate() and not by proceed_with_getjob()
PushConfig ==
    [GenericConfig EXCEPT !.push = TRUE, !.verify_proxy = TRUE]

\* surroundings in which nothing goes wrong: the dispatcher hands out jobs
\* until the time floor has passed and answers every update
Calm ==
    [definitions |-> {"job_indata", "job_noindata"}, elapsed |-> {0, MaxElapsed},
     allow_timefloor |-> {TRUE}, proxy_codes |-> {0}, space_codes |-> {0},
     valid |-> {TRUE}, mkdir |-> {TRUE},
     responses |-> {PlainResponse}, written |-> {TRUE},
     probes |-> {0}, due |-> {TRUE},
     stagein |-> {TRUE}, payload |-> {TRUE},
     logs |-> {LOG_TRANSFER_DONE}, transfers |-> {LOG_TRANSFER_DONE},
     signal |-> FALSE, maxtime |-> FALSE, broker |-> {}]

\* a dispatcher that has no job, answers with a StatusCode or not at all
Starved ==
    [Calm EXCEPT !.definitions = {"None", "empty", "StatusCode", "job_noindata"},
                 !.elapsed = {0}]

\* a dispatcher that has a job at times
Sparse ==
    [Calm EXCEPT !.definitions = {"empty", "job_noindata"}, !.elapsed = {0}]

\* a dispatcher that has no job
Barren ==
    [Calm EXCEPT !.definitions = {"empty"}, !.elapsed = {0}]

\* a dispatcher that does not answer every update, payloads that fail
Deaf ==
    [Calm EXCEPT !.definitions = {"job_noindata"},
                 !.responses = {NoResponse, PlainResponse},
                 !.payload = BOOLEAN,
                 !.logs = {LOG_TRANSFER_NOT_DONE, LOG_TRANSFER_DONE}]

\* a dispatcher that orders the job to be killed, transfers of the log that fail
Killer ==
    [Calm EXCEPT !.definitions = {"job_indata"},
                 !.responses = {PlainResponse, CommandResponse(W_tobekilled)},
                 !.due = BOOLEAN,
                 !.logs = {LOG_TRANSFER_NOT_DONE},
                 !.transfers = {LOG_TRANSFER_DONE, LOG_TRANSFER_FAILED}]

\* a kill signal may arrive
Signalled ==
    [Calm EXCEPT !.definitions = {"job_noindata"}, !.signal = TRUE]

\* a message of the broker: its msg_type, and its entry 'kill_task' if it
\* has one ("absent" for a message of the shape {msg_type, taskid})
Message(msg_type, kill_task) == [msg_type |-> msg_type, kill_task |-> kill_task]

\* the messages of the shape {msg_type, taskid}
PlainMessages == {Message(t, "absent") : t \in {"get_job", "kill_task", "finish_task"}}

\* messages of the broker may arrive, with or without an entry 'kill_task'
Messaged ==
    [Calm EXCEPT !.definitions = {"job_noindata"},
                 !.broker = PlainMessages \cup {Message("kill_task", "true"),
                                                Message("finish_task", "false")}]

\* a dispatcher that has no job, get_job messages of the broker, and a kill
\* signal that may arrive
Interrupted ==
    [Barren EXCEPT !.signal = TRUE, !.broker = {Message("get_job", "absent")}]

\* the time limit of the batch system may be reached
TimedOut ==
    [Calm EXCEPT !.definitions = {"job_noindata"}, !.maxtime = TRUE]

\* jobs that do not validate, stage-in that fails, payloads that the probe
\* finds in trouble
Sick ==
    [Calm EXCEPT !.definitions = {"job_indata"},
                 !.space_codes = {0, NOLOCALSPACE},
                 !.valid = BOOLEAN, !.mkdir = BOOLEAN, !.stagein = BOOLEAN,
                 !.probes = {0, VOMSPROXYABOUTTOEXPIRE, KILLPAYLOAD, LEASETIME, LOOPINGJOB},
                 !.due = BOOLEAN]

\* a disk that may be full, a proxy that may be missing
Cramped ==
    [Calm EXCEPT !.definitions = {"job_noindata"},
                 !.proxy_codes = {0, NOPROXY},
                 !.space_codes = {0, NOLOCALSPACE}]

\* a stager pod whose stage-in may fail and whose dispatcher may not answer
Staging ==
    [Calm EXCEPT !.stagein = BOOLEAN,
                 !.responses = {NoResponse, PlainResponse, CommandResponse(W_tobekilled)}]

\* the runs of the stages: the pilot's arguments and its surroundings
Runs ==
    {<<GenericConfig, Calm>>, <<GenericConfig, Starved>>, <<GenericConfig, Deaf>>,
     <<GenericConfig, Killer>>, <<GenericConfig, Signalled>>, <<GenericConfig, TimedOut>>,
     <<GenericConfig, Sick>>, <<StagerPodConfig, Staging>>, <<PushConfig, Cramped>>,
     <<ListeningConfig, Messaged>>, <<HarvesterConfig, Starved>>,
     <<PatientConfig, Sparse>>, <<NoFloorConfig, Calm>>,
     <<StagerConfig, Sparse>>, <<PatientHarvesterConfig, Barren>>,
     <<ListeningConfig, Interrupted>>}

FnIdle == [name |-> "none", serverstate |-> "", state |-> "", cmd |-> <<>>,
           ret |-> "", debug_mode |-> FALSE, debug_command |-> <<>>]

pipeVars == <<world, args, job, q, graceful_stop, abort_job, job_aborted, signal, environ, traces,
              rt, vpc, cpc, qm, jm, collab, server, last, hist>>

\* the queues, the flags and the stages before any stage has run, the stages
\* at position pc
Rest(pc) ==
    /\ q = purged
    /\ graceful_stop = FALSE
    /\ abort_job = FALSE
    /\ job_aborted = FALSE
    /\ signal = FALSE
    /\ traces = [command |-> "", error_code |-> 0]
    /\ rt = [pc |-> pc, jobnumber |-> 0, getjob_requests |-> 0, getjob_failures |-> 0,
             i |-> 0, delay |-> 0, job |-> 0]
    /\ vpc = pc
    /\ cpc = pc
    /\ qm = [pc |-> pc, job |-> 0, n |-> 0, abort_thread |-> FALSE]
    /\ jm = [pc |-> pc]
    /\ collab = [stageout |-> 0, ended |-> {}, messages |-> <<>>, listener |-> "loop"]
    /\ server = [j \in Jobs |-> {}]
    /\ last = NoCall
    /\ hist = [completions |-> 0, released |-> {}, streak |-> 0, gate |-> "",
             at |-> [j \in Jobs |-> "none"], attempts |-> 0]

\* the state before any stage has run in surroundings w
Start(a, w, pc) ==
    /\ args = a
    /\ world = w
    /\ job = [j \in Jobs |-> NoJob]
    /\ environ = InitEnviron
    /\ Rest(pc)

\* no stage runs
Idle == Start(GenericConfig, Calm, "off")

Init ==
    /\ fn = FnIdle
    /\ \E r \in Runs : Start(r[1], r[2], "loop")

Next ==
    \/ RetrieveEnd
    \/ RetrieveAttempt
    \/ RetrieveMessage
    \/ RetrieveBackoff
    \/ RetrieveWait
    \/ ValidateEnd
    \/ Validate
    \/ CreateDataPayloadEnd
    \/ CreateDataPayload
    \/ QueueMonitorGet
    \/ QueueMonitorPoll
    \/ QueueMonitorFinal
    \/ JobMonitorEnd
    \/ JobMonitorStaging
    \/ JobMonitorPayload
    \/ StageInStart
    \/ StageInEnd
    \/ PayloadStart
    \/ PayloadEnd
    \/ StageOutGet
    \/ StageOutEnd
    \/ MessageListener
    \/ Control
    \/ KillSignal
    \/ ReachedMaxtime

Spec == Init /\ [][Next]_vars

\* the stages are threads that keep running, and so do the data and payload
\* components; a kill signal or the time limit need not come
Fairness ==
    /\ WF_vars(RetrieveEnd)
    /\ WF_vars(RetrieveAttempt)
    /\ WF_vars(RetrieveMessage)
    /\ WF_vars(RetrieveBackoff)
    /\ WF_vars(RetrieveWait)
    /\ WF_vars(ValidateEnd)
    /\ WF_vars(Validate)
    /\ WF_vars(CreateDataPayloadEnd)
    /\ WF_vars(CreateDataPayload)
    /\ WF_vars(QueueMonitorGet)
    /\ WF_vars(QueueMonitorPoll)
    /\ WF_vars(QueueMonitorFinal)
    /\ WF_vars(JobMonitorEnd)
    /\ WF_vars(JobMonitorStaging)
    /\ WF_vars(JobMonitorPayload)
    /\ WF_vars(StageInStart)
    /\ WF_vars(StageInEnd)
    /\ WF_vars(PayloadStart)
    /\ WF_vars(PayloadEnd)
    /\ WF_vars(StageOutGet)
    /\ WF_vars(StageOutEnd)
    /\ WF_vars(Control)

\* the stages under fair scheduling
SpecLive == Spec /\ Fairness

-----------------------------------------------------------------------------
(* The specification of the pure functions: each step is one call *)

\* the inputs of one call, drawn before the call
FnInputs ==
    {[FnIdle EXCEPT !.name = "call_get_proper_state", !.serverstate = ss, !.state = s] :
        ss \in ServerStates, s \in JobStates}
    \cup {[FnIdle EXCEPT !.name = "call_get_debug_command", !.cmd = c] : c \in RawCommands}

CallGetProperState ==
    /\ fn.name = "call_get_proper_state"
    /\ fn' = [fn EXCEPT !.name = "get_proper_state",
                        !.ret = get_proper_state(fn.serverstate, fn.state)]
    /\ UNCHANGED pipeVars

CallGetDebugCommand ==
    /\ fn.name = "call_get_debug_command"
    /\ LET r == get_debug_command(fn.cmd)
       IN  fn' = [fn EXCEPT !.name = "get_debug_command",
                           !.debug_mode = r.debug_mode, !.debug_command = r.debug_command]
    /\ UNCHANGED pipeVars

InitFn ==
    /\ fn \in FnInputs
    /\ Idle

NextFn == CallGetProperState \/ CallGetDebugCommand

SpecFn == InitFn /\ [][NextFn]_vars

-----------------------------------------------------------------------------
(* The specification of send_state: each behaviour is one call *)

\* the pilot's arguments of a call
SendConfigs ==
    {[GenericConfig EXCEPT !.workflow = wf, !.pod = pod, !.update_server = us[1],
                           !.pandajob = us[2]] :
        wf \in {"generic", "stager"}, pod \in BOOLEAN,
        us \in {<<TRUE, "real">>, <<TRUE, "fake">>, <<FALSE, "real">>}}

\* the job of a call
SendJobs ==
    {[NewJob(FALSE) EXCEPT !.state = st, !.serverstate = ss, !.completed = c,
                           !.piloterrorcode = ec[1], !.piloterrorcodes = ec[2],
                           !.workdir = wd, !.analysis = an, !.pid = TRUE] :
        st \in {"running", "finished", "failed"}, ss \in ServerStates, c \in BOOLEAN,
        ec \in {<<0, <<>> >>, <<0, <<LOOPINGJOB>> >>, <<LOOPINGJOB, <<LOOPINGJOB>> >>},
        wd \in BOOLEAN, an \in BOOLEAN}

\* the answers of the dispatcher to the update
SendResponses ==
    {NoResponse, PlainResponse}
    \cup {CommandResponse(c) : c \in {W_tobekilled, W_softkill, W_nocleanup, W_debug, W_NULL,
                                      W_tail \o W_space \o W_arg}}

InitSend ==
    /\ fn = FnIdle
    /\ world = Calm
    /\ args \in SendConfigs
    /\ job \in {[j \in Jobs |-> IF j = 1 THEN r ELSE NoJob] : r \in SendJobs}
    /\ environ \in {InitEnviron, [InitEnviron EXCEPT !.REACHED_MAXTIME = TRUE]}
    /\ Rest("off")

\* a call send_state(job, args, state); last records the call
CallSendState ==
    /\ rt.pc = "off"
    /\ last = NoCall
    /\ job[1] # NoJob
    /\ \E requested \in JobStates, res \in SendResponses, written \in BOOLEAN :
        \E w \in {Send(World(1), 1, requested, res, written, "caller")} :
            /\ Store(w, 1)
            /\ last' = w.last
    /\ UNCHANGED <<fn, world, q, graceful_stop, job_aborted, signal, traces, rt, vpc, cpc,
                   qm, jm, collab, hist>>

NextSend == CallSendState

SpecSend == InitSend /\ [][NextSend]_vars

-----------------------------------------------------------------------------
(* The specification of the calls made with a dispatcher response and of the
   heartbeat: each behaviour is one call *)

\* the pilot's arguments of a call
CallConfigs ==
    {[GenericConfig EXCEPT !.workflow = wf] : wf \in {"generic", "stager"}}

\* the job of a call
CallJobs ==
    {[NewJob(FALSE) EXCEPT !.state = st, !.serverstate = ss, !.completed = c, !.workdir = wd,
                           !.pid = pid, !.debug = db[1], !.debug_command = db[2],
                           !.piloterrorcodes = ec] :
        st \in {"stagein", "running", "finished"}, ss \in {"starting", "running", "failed"},
        c \in BOOLEAN, wd \in BOOLEAN, pid \in BOOLEAN,
        db \in {<<FALSE, <<>> >>, <<TRUE, <<>> >>, <<TRUE, W_debug>>},
        ec \in {<<>>, <<LOOPINGJOB>>}}

\* the commands of the dispatcher
CallCommands ==
    {W_tobekilled, W_debug \o W_comma \o W_tobekilled, W_tobekilled \o W_comma \o W_nocleanup,
     W_tail \o W_space \o W_arg \o W_comma \o W_tobekilled,
     W_softkill, W_debug, W_debugoff, W_nocleanup, W_NULL, W_tail \o W_space \o W_arg}

\* the times of the clock, in seconds: update_time, and int(time.time()) at
\* the test and after the update
CallTimes ==
    {<<u, t, t + d>> : u \in {0, 300}, t \in {299, 300, 1799, 1800, 2100}, d \in {0, 1}}

InitCall ==
    /\ fn = FnIdle
    /\ world = Calm
    /\ args \in CallConfigs
    /\ job \in {[j \in Jobs |-> IF j = 1 THEN r ELSE NoJob] : r \in CallJobs}
    /\ environ = InitEnviron
    /\ q = purged
    /\ graceful_stop = FALSE
    /\ abort_job \in BOOLEAN
    /\ job_aborted = FALSE
    /\ signal = FALSE
    /\ traces = [command |-> "", error_code |-> 0]
    /\ rt = [pc |-> "off", jobnumber |-> 0, getjob_requests |-> 0, getjob_failures |-> 0,
             i |-> 0, delay |-> 0, job |-> 0]
    /\ vpc = "off"
    /\ cpc = "off"
    /\ qm = [pc |-> "off", job |-> 0, n |-> 0, abort_thread |-> FALSE]
    /\ jm = [pc |-> "off"]
    /\ collab = [stageout |-> 0, ended |-> {}, messages |-> <<>>, listener |-> "loop"]
    /\ server = [j \in Jobs |-> {}]
    /\ last = NoCall
    /\ hist = [completions |-> 0, released |-> {}, streak |-> 0, gate |-> "",
             at |-> [j \in Jobs |-> "none"], attempts |-> 0]

\* a call handle_backchannel_command(res, job, args); fn records the command
CallHandleBackchannelCommand ==
    /\ fn = FnIdle
    /\ \E cmd \in CallCommands :
        \E bc \in {handle_backchannel_command(CommandResponse(cmd), job[1], args.workflow)} :
            /\ job' = [job EXCEPT ![1] = bc.job]
            /\ abort_job' = (abort_job \/ bc.abort)
            /\ args' = [args EXCEPT !.cleanup = @ /\ ~bc.nocleanup]
            /\ fn' = [FnIdle EXCEPT !.name = "handle_backchannel_command", !.cmd = cmd]
    /\ UNCHANGED <<world, q, graceful_stop, job_aborted, signal, environ, traces, rt, vpc, cpc,
                   qm, jm, collab, server, last, hist>>

\* a call update_time = send_heartbeat_if_time(job, args, update_time); jm
\* records the times and the returned update_time, last the update if one
\* was sent
CallSendHeartbeatIfTime ==
    /\ fn = FnIdle
    /\ \E t \in CallTimes, res \in {NoResponse, PlainResponse} :
        \E w \in {send_heartbeat_if_time(World(1), 1, heartbeat_due(job[1], t[2], t[1]), res, FALSE)} :
            /\ Store(w, 1)
            /\ last' = w.last
            /\ jm' = [pc |-> "off", update_time |-> t[1], tested |-> t[2], now |-> t[3],
                      ret |-> heartbeat_time(w.last # NoCall, w.last.ret, t[3], t[1])]
    /\ fn' = [FnIdle EXCEPT !.name = "send_heartbeat_if_time"]
    /\ UNCHANGED <<world, q, graceful_stop, job_aborted, signal, traces, rt, vpc, cpc, qm,
                   collab, hist>>

NextCall ==
    \/ CallHandleBackchannelCommand
    \/ CallSendHeartbeatIfTime

SpecCall == InitCall /\ [][NextCall]_vars

-----------------------------------------------------------------------------
(* get_data_structure: the part of the update made for a completed job, and
   the specification of its calls: each behaviour is one call *)

\* the longest tail of the pilot log of a call, in characters
MaxTail == 1100

\* the size of data['pilotLog'], in characters
PilotLogMax == 1024

\* config.Pilot.pilotlog, the name of the pilot log
W_pilotlog == <<"p", "i", "l", "o", "t", "l", "o", "g", ".", "t", "x", "t">>

\* f"- Log from {config.Pilot.pilotlog} -\n"
LogHeader == <<"-", " ", "L", "o", "g", " ", "f", "r", "o", "m", " ">> \o W_pilotlog \o <<" ", "-", "\n">>

\* a text of n characters
Text(n) == [i \in 1..n |-> "x"]

\* get_pilot_log_extracts(): the header and the tail of the pilot log, if the
\* log exists and its tail is not empty
get_pilot_log_extracts(exists, _tail) ==
    IF exists /\ _tail # <<>> THEN LogHeader \o _tail ELSE <<>>

\* get_log_extracts(job, state)
get_log_extracts(exists, _tail, state) ==
    IF get_pilot_log_extracts(exists, _tail) # <<>> /\ state \in {"failed", "holding"}
    THEN get_pilot_log_extracts(exists, _tail)
    ELSE <<>>

\* extracts[:1024]
head_of_extracts(extracts) ==
    SubSeq(extracts, 1, IF Len(extracts) < PilotLogMax THEN Len(extracts) ELSE PilotLogMax)

\* add_timing_and_extracts(data, job, state, args)
add_timing_and_extracts(data, state, exists, _tail) ==
    [data EXCEPT !.keys = @ \cup {"pilotTiming", "pilotLog", "endTime"},
                 !.pilotLog = head_of_extracts(IF state \in {"failed", "holding"}
                                               THEN get_log_extracts(exists, _tail, state)
                                               ELSE <<>>)]

\* a mutant that adds the timing and the extracts for a failed job only
is_terminal_failedonly(state) == state = "failed"

\* get_data_structure(): is the update one of a completed job?
is_terminal(state) == state = "finished" \/ state = "failed"

\* get_data_structure(job, state, args): the keys of the dictionary that
\* are always there, those of a completed job, and data['pilotLog']
get_data_structure(state, exists, _tail) ==
    LET data == [state |-> state, pilotLog |-> <<>>,
                 keys |-> {"jobId", "state", "timestamp", "siteName", "node", "attemptNr",
                           "cpuConsumptionUnit"}]
    IN  IF is_terminal(state) THEN add_timing_and_extracts(data, state, exists, _tail) ELSE data

\* the inputs of a call: the state, whether the pilot log exists, its tail
DataInputs ==
    {[name |-> "call_get_data_structure", state |-> s, exists |-> e, tail |-> Text(n)] :
        s \in JobStates, e \in BOOLEAN,
        n \in {0, 1, PilotLogMax - Len(LogHeader), PilotLogMax - Len(LogHeader) + 1,
               PilotLogMax, MaxTail}}

InitData ==
    /\ fn \in DataInputs
    /\ Idle

CallGetDataStructure ==
    /\ fn.name = "call_get_data_structure"
    /\ fn' = [name |-> "get_data_structure", state |-> fn.state, exists |-> fn.exists,
              tail |-> fn.tail, data |-> get_data_structure(fn.state, fn.exists, fn.tail)]
    /\ UNCHANGED pipeVars

NextData == CallGetDataStructure

SpecData == InitData /\ [][NextData]_vars

-----------------------------------------------------------------------------
(* wait_for_aborted_job_stageout, and the specification of its calls: each
   behaviour is one call, a step is the computation of max_wait_time or a
   pass of the wait loop *)

\* the longest time since the kill signal at a call, in seconds
MaxSince == 70

\* the value time_since_kill is reset to when it is out of the limits
SinceReset == 60

\* time_since_kill after the try statement: raised stands for an exception
\* of get_time_since() or was_pilot_killed()
time_since_kill(raised, measured) ==
    IF raised THEN SinceReset
    ELSE IF measured > 60 \/ measured < 0 THEN SinceReset
    ELSE measured

\* max_wait_time = 2 * 60 - time_since_kill - 5
max_wait_time(since) == 2 * 60 - since - 5

\* the inputs of a call: what get_time_since() returns, or that it raises
WaitInputs ==
    {[name |-> "call_wait_for_aborted_job_stageout", raised |-> r, measured |-> m] :
        r \in BOOLEAN, m \in (0 - 1)..MaxSince}

InitWait ==
    /\ fn \in WaitInputs
    /\ Idle

\* the call up to the wait loop; halves counts the sleeps of half a second
CallWaitForAbortedJobStageout ==
    /\ fn.name = "call_wait_for_aborted_job_stageout"
    /\ fn' = [name |-> "waiting", raised |-> fn.raised, measured |-> fn.measured,
              max_wait_time |-> max_wait_time(time_since_kill(fn.raised, fn.measured)),
              halves |-> 0]
    /\ UNCHANGED pipeVars

\* a pass of the wait loop: it ends when max_wait_time has passed or when
\* the job is in finished_data_out or failed_data_out, and sleeps otherwise
WaitPass ==
    /\ fn.name = "waiting"
    /\ IF fn.halves >= 2 * fn.max_wait_time
       THEN fn' = [fn EXCEPT !.name = "wait_for_aborted_job_stageout"]
       ELSE \E staged_out \in BOOLEAN :
              IF staged_out
              THEN fn' = [fn EXCEPT !.name = "wait_for_aborted_job_stageout"]
              ELSE fn' = [fn EXCEPT !.halves = @ + 1]
    /\ UNCHANGED pipeVars

NextWait == CallWaitForAbortedJobStageout \/ WaitPass

SpecWait == InitWait /\ [][NextWait]_vars

-----------------------------------------------------------------------------
(* job_monitor: the passes of its loop over the queues as the data and the
   payload components may have left them *)

\* the job of the passes
PassJobs ==
    {[NewJob(id) EXCEPT !.state = st, !.serverstate = ss, !.pid = (st = "running"),
                     !.workdir = TRUE] :
        id \in BOOLEAN, st \in {"stagein", "running", "finished", "failed"},
        ss \in {"starting", "failed"}}

\* the queues of the passes: job 1 is in any of current_data_in,
\* finished_data_in and monitored_payloads
PassQueues ==
    {[purged EXCEPT !.current_data_in = c, !.finished_data_in = f, !.monitored_payloads = m] :
        c \in {<<>>, <<1>>}, f \in {<<>>, <<1>>}, m \in {<<>>, <<1>>}}

\* a proxy that is about to expire and cannot be downloaded again
Expiring ==
    [Sick EXCEPT !.probes = {VOMSPROXYABOUTTOEXPIRE}, !.proxy_codes = {NOVOMSPROXY}]

\* a payload that the probe finds looping
Looping ==
    [Sick EXCEPT !.probes = {LOOPINGJOB}]

InitPass ==
    /\ fn = FnIdle
    /\ world \in {Sick, Expiring, Looping}
    /\ args = GenericConfig
    /\ job \in {[j \in Jobs |-> IF j = 1 THEN r ELSE NoJob] : r \in PassJobs}
    /\ environ = InitEnviron
    /\ q \in PassQueues
    /\ graceful_stop = FALSE
    /\ abort_job \in BOOLEAN
    /\ job_aborted = FALSE
    /\ signal = FALSE
    /\ traces = [command |-> "", error_code |-> 0]
    /\ rt = [pc |-> "off", jobnumber |-> 0, getjob_requests |-> 0, getjob_failures |-> 0,
             i |-> 0, delay |-> 0, job |-> 0]
    /\ vpc = "off"
    /\ cpc = "off"
    /\ qm = [pc |-> "off", job |-> 0, n |-> 0, abort_thread |-> FALSE]
    /\ jm = [pc |-> "loop"]
    /\ collab = [stageout |-> 0, ended |-> {}, messages |-> <<>>, listener |-> "loop"]
    /\ server = [j \in Jobs |-> {}]
    /\ last = NoCall
    /\ hist = [completions |-> 0, released |-> {}, streak |-> 0, gate |-> "",
             at |-> [j \in Jobs |-> "none"], attempts |-> 0]

NextPass == JobMonitorStaging \/ JobMonitorPayload

SpecPass == InitPass /\ [][NextPass]_vars

-----------------------------------------------------------------------------
(* send_state called by two threads for the same job: the heartbeat of
   job_monitor() and the final update of queue_monitor(). The statements of
   send_state() are not guarded by a lock; a step is the part of a call up to
   get_proper_state(), or its https.send_update(), or its return *)

\* the heartbeats of job_monitor()
MaxBeats == 2

\* no call is under way and nothing has reached the dispatcher
RaceIdle ==
    [name |-> "race", hb |-> "idle", hb_state |-> "", beats |-> 0,
     fin |-> "idle", fin_state |-> "", wire |-> <<>>]

InitRace ==
    /\ fn = RaceIdle
    /\ world = Calm
    /\ args = GenericConfig
    /\ job \in {[j \in Jobs |-> IF j = 1
                                 THEN [NewJob(id) EXCEPT !.state = "running", !.serverstate = ss,
                                                         !.pid = TRUE, !.workdir = TRUE]
                                 ELSE NoJob] : id \in BOOLEAN, ss \in {"", "starting", "running"}}
    /\ environ = InitEnviron
    /\ Rest("off")

\* the payload of the job ends
PayloadOver ==
    /\ job[1].state = "running"
    /\ \E st \in {"finished", "failed"} :
         job' = [job EXCEPT ![1] = [@ EXCEPT !.state = st,
                   !.piloterrorcodes = IF st = "failed"
                                       THEN add_error_code(@, PAYLOADEXECUTIONFAILURE) ELSE @]]
    /\ UNCHANGED <<fn, world, args, q, graceful_stop, abort_job, job_aborted, signal, environ,
                   traces, rt, vpc, cpc, qm, jm, collab, server, last, hist>>

\* send_heartbeat_if_time() finds the heartbeat wanted and calls
\* send_state(job, args, 'running'), which runs up to get_proper_state()
HeartbeatResolve ==
    /\ fn.hb = "idle"
    /\ fn.beats < MaxBeats
    /\ heartbeat_wanted(job[1], TRUE)
    /\ \E s \in {get_proper_state(job[1].serverstate, "running")} :
         /\ job' = [job EXCEPT ![1] = [@ EXCEPT !.serverstate = s]]
         /\ fn' = [fn EXCEPT !.hb = "resolved", !.hb_state = s, !.beats = @ + 1]
    /\ UNCHANGED <<world, args, q, graceful_stop, abort_job, job_aborted, signal, environ,
                   traces, rt, vpc, cpc, qm, jm, collab, server, last, hist>>

\* https.send_update() of the heartbeat: the update reaches the dispatcher,
\* unless the job is found completed
HeartbeatUpdate ==
    /\ fn.hb = "resolved"
    /\ fn' = [fn EXCEPT !.hb = "idle",
                        !.wire = IF job[1].completed THEN @ ELSE Append(@, fn.hb_state)]
    /\ UNCHANGED <<world, args, job, q, graceful_stop, abort_job, job_aborted, signal, environ,
                   traces, rt, vpc, cpc, qm, jm, collab, server, last, hist>>

\* queue_monitor() calls send_state(job, args, job.state) for the job that
\* has finished or failed, which runs up to get_proper_state()
FinalResolve ==
    /\ fn.fin = "idle"
    /\ job[1].state \in {"finished", "failed"}
    /\ \E s \in {get_proper_state(job[1].serverstate, job[1].state)} :
         /\ job' = [job EXCEPT ![1] = [@ EXCEPT !.serverstate = s]]
         /\ fn' = [fn EXCEPT !.fin = "resolved", !.fin_state = s]
    /\ UNCHANGED <<world, args, q, graceful_stop, abort_job, job_aborted, signal, environ,
                   traces, rt, vpc, cpc, qm, jm, collab, server, last, hist>>

\* https.send_update() of the final update: it reaches the dispatcher
FinalUpdate ==
    /\ fn.fin = "resolved"
    /\ fn' = [fn EXCEPT !.fin = "sent", !.wire = Append(@, fn.fin_state)]
    /\ UNCHANGED <<world, args, job, q, graceful_stop, abort_job, job_aborted, signal, environ,
                   traces, rt, vpc, cpc, qm, jm, collab, server, last, hist>>

\* the answer to the final update has come: send_state() sets job.completed
\* and returns
FinalReturn ==
    /\ fn.fin = "sent"
    /\ job' = [job EXCEPT ![1] = [@ EXCEPT
                  !.completed = @ \/ completed_after_update(fn.fin_state, PlainResponse)]]
    /\ fn' = [fn EXCEPT !.fin = "done"]
    /\ UNCHANGED <<world, args, q, graceful_stop, abort_job, job_aborted, signal, environ,
                   traces, rt, vpc, cpc, qm, jm, collab, server, last, hist>>

NextRace ==
    \/ PayloadOver
    \/ HeartbeatResolve
    \/ HeartbeatUpdate
    \/ FinalResolve
    \/ FinalUpdate
    \/ FinalReturn

SpecRace == InitRace /\ [][NextRace]_vars

-----------------------------------------------------------------------------
(* C3 *)

\* C3 as stated: for every pair (server state, requested state) the result is
\* starting for a fresh server state and a requested state that is not
\* finished or failed, the requested state when it is finished, failed or
\* holding, and running otherwise.
C3_AsStated ==
    fn.name = "get_proper_state" =>
        /\ (fn.serverstate = "" /\ fn.state \notin {"finished", "failed"}) => fn.ret = "starting"
        /\ (~(fn.serverstate = "" /\ fn.state \notin {"finished", "failed"})
              /\ fn.state \in {"finished", "failed", "holding"}) => fn.ret = fn.state
        /\ (~(fn.serverstate = "" /\ fn.state \notin {"finished", "failed"})
              /\ fn.state \notin {"finished", "failed", "holding"}) => fn.ret = "running"

\* C3: a server state that is already finished or failed is returned
\* unchanged; otherwise the result is starting for a fresh server state and a
\* requested state that is not finished or failed (holding included), the
\* requested state when it is finished, failed or holding, and running for
\* any other requested state.
C3_ProperState ==
    fn.name = "get_proper_state" =>
        /\ fn.serverstate \in {"finished", "failed"} => fn.ret = fn.serverstate
        /\ fn.serverstate \notin {"finished", "failed"} =>
            /\ (fn.serverstate = "" /\ fn.state \notin {"finished", "failed"}) => fn.ret = "starting"
            /\ (~(fn.serverstate = "" /\ fn.state \notin {"finished", "failed"})
                  /\ fn.state \in {"finished", "failed", "holding"}) => fn.ret = fn.state
            /\ (~(fn.serverstate = "" /\ fn.state \notin {"finished", "failed"})
                  /\ fn.state \notin {"finished", "failed", "holding"}) => fn.ret = "running"

\* a terminal server state met a non-terminal request and was kept
C3_Witness ==
    /\ fn.name = "get_proper_state"
    /\ fn.serverstate = "finished"
    /\ fn.state = "running"
    /\ fn.ret = "finished"

-----------------------------------------------------------------------------
(* C4 *)

\* C4 as stated: a command is accepted, and returned as debug_command, exactly
\* when its first word is one of tail, ls, ps, gdb, du and it contains neither
\* ';' nor '&#59'; otherwise debug_mode is False and debug_command is empty.
C4_AsStated ==
    fn.name = "get_debug_command" =>
        LET ok == /\ FirstWord(fn.cmd) \in allowed_commands
                  /\ ~Contains(fn.cmd, W_semicolon)
                  /\ ~Contains(fn.cmd, W_encsemicolon)
        IN  /\ fn.debug_mode = ok
            /\ fn.debug_command = (IF ok THEN fn.cmd ELSE <<>>)

\* C4: with the redundant 'debug,' and ',debug' removed first from a command
\* that contains both ',' and 'debug', the remaining command is accepted, and
\* returned as debug_command, exactly when its first word is one of tail, ls,
\* ps, gdb, du and it contains neither ';' nor '&#59'; otherwise debug_mode is
\* False and debug_command is empty.
C4_DebugFilter ==
    fn.name = "get_debug_command" =>
        LET c == IF Contains(fn.cmd, W_comma) /\ Contains(fn.cmd, W_debug)
                 THEN Replace(Replace(fn.cmd, W_debug \o W_comma, <<>>), W_comma \o W_debug, <<>>)
                 ELSE fn.cmd
            ok == /\ FirstWord(c) \in {W_tail, W_ls, W_ps, W_gdb, W_du}
                  /\ ~Contains(c, W_semicolon)
                  /\ ~Contains(c, W_encsemicolon)
        IN  /\ fn.debug_mode = ok
            /\ fn.debug_command = (IF ok THEN c ELSE <<>>)

\* 'ls' followed by ';' and 'rm' was rejected
C4_Witness ==
    /\ fn.name = "get_debug_command"
    /\ fn.cmd = W_ls \o W_semicolon \o W_rm
    /\ fn.debug_mode = FALSE
    /\ fn.debug_command = <<>>

-----------------------------------------------------------------------------
(* C1 *)

\* the job objects that exist
Live == {j \in Jobs : job[j] # NoJob}

\* C1 as stated: for every job and every interleaving of the stages,
\* job.completed goes from false to true at most once (it is never taken
\* back), and only in a step after which a terminal update (finished or
\* failed) for that job has been delivered to the dispatcher.
C1_AsStated ==
    [][\A j \in Live :
          /\ (job[j].completed /\ job'[j] # NoJob) => job'[j].completed
          /\ (~job[j].completed /\ job'[j].completed) =>
                server'[j] \cap {"finished", "failed"} # {}]_vars

-----------------------------------------------------------------------------
(* C2 *)

-----------------------------------------------------------------------------
(* C5 *)

\* C5: retrieve() enqueues a job only after the completion entries of all
\* the jobs it enqueued before were put on completed_jobs and the last of them
\* was dequeued: every acquired job but the last has been released by
\* queue_monitor(), and at most one acquired job is not completed.
C5_OneJobSlot ==
    /\ \A j \in 1..(rt.jobnumber - 1) : j \in hist.released
    /\ rt.jobnumber - hist.completions \in {0, 1}
    /\ Cardinality({j \in 1..rt.jobnumber : j \notin hist.released}) <= 1

\* a second job was acquired after the first one was completed
C5_Witness ==
    /\ rt.jobnumber = 2
    /\ hist.completions = 1
    /\ InQueue(2, q.jobs)

-----------------------------------------------------------------------------
(* C6 *)

\* a step in which retrieve() counts a failed attempt; graceful_stop may have
\* been set by another thread while get_job_definition() waited for a message
FailedAttempt == rt'.getjob_failures = rt.getjob_failures + 1

\* C6 as stated: a failed attempt sets graceful_stop exactly when the number
\* of failed attempts in a row, with no acquired job in between, reaches
\* args.getjob_failures; once graceful_stop is set no further request is made.
C6_AsStated ==
    [][/\ (FailedAttempt /\ ~graceful_stop) => (graceful_stop' <=> hist'.streak >= args.getjob_failures)
       /\ graceful_stop => rt'.getjob_requests <= rt.getjob_requests]_vars

\* C6: a failed attempt sets graceful_stop exactly when the number of failed
\* attempts since the stage started, whether or not a job was acquired in
\* between, reaches args.getjob_failures; once graceful_stop is set no further
\* request is made.
C6_FailureCeiling ==
    [][/\ (FailedAttempt /\ ~graceful_stop) => (graceful_stop' <=> rt'.getjob_failures >= args.getjob_failures)
       /\ graceful_stop => rt'.getjob_requests <= rt.getjob_requests]_vars

\* the ceiling was reached by failures that a completed job separates
C6_Witness ==
    /\ graceful_stop
    /\ rt.getjob_failures = args.getjob_failures
    /\ hist.streak < args.getjob_failures
    /\ hist.streak > 0
    /\ hist.completions > 0

-----------------------------------------------------------------------------
(* C7 *)

-----------------------------------------------------------------------------
(* C8 *)

\* a poll of the wait loop of order_log_transfer()
LogPoll == qm.pc = "logwait" /\ qm' # qm

-----------------------------------------------------------------------------
(* C9 *)

\* a pass of create_data_payload() that takes a job from validated_jobs
Handoff ==
    /\ Len(q.validated_jobs) > 0
    /\ Len(q'.validated_jobs) < Len(q.validated_jobs)
    /\ rt' = rt

\* C9: in the generic workflow create_data_payload() puts a job without input
\* data in finished_data_in and payloads and not in data_in; a job with input
\* data goes to data_in and payloads, in state stagein, and not to
\* finished_data_in; no job is in data_in and in finished_data_in.
C9_Routing ==
    /\ [](args.workflow = "generic" =>
            \A j \in Jobs : ~(InQueue(j, q.data_in) /\ InQueue(j, q.finished_data_in)))
    /\ [][(args.workflow = "generic" /\ Handoff) =>
            LET j == Head(q.validated_jobs)
            IN  /\ InQueue(j, q'.payloads)
                /\ job[j].indata =>
                      /\ InQueue(j, q'.data_in)
                      /\ ~InQueue(j, q'.finished_data_in)
                      /\ job'[j].state = "stagein"
                /\ ~job[j].indata =>
                      /\ InQueue(j, q'.finished_data_in)
                      /\ ~InQueue(j, q'.data_in)]_vars

\* a job with input data is in data_in and payloads, in state stagein
C9_Witness ==
    \E j \in Live :
        /\ args.workflow = "generic"
        /\ job[j].indata
        /\ job[j].state = "stagein"
        /\ InQueue(j, q.data_in)
        /\ InQueue(j, q.payloads)

-----------------------------------------------------------------------------
(* C10 *)

\* the job is completed after the call exactly when it was before or c holds
CompletedExactlyWhen(c) == job[1].completed <=> (last.completed_before \/ c)

\* a final update was to be sent and the dispatcher gave no response
NoAnswer ==
    last.final /\ args.update_server /\ args.pandajob = "real" /\ ~last.sent

\* C10 as stated: send_state sets job.completed exactly when the resolved
\* state is finished or failed and the update was delivered; with no response
\* to a final update it returns False and leaves job.completed as it was.
C10_AsStated ==
    last.job # 0 =>
        /\ CompletedExactlyWhen(last.sent /\ last.state \in {"finished", "failed"})
        /\ NoAnswer => (~last.ret /\ job[1].completed = last.completed_before)

\* C10: send_state sets job.completed exactly when the resolved state is
\* final (finished, failed or holding) and the update was delivered; with no
\* response to a final update it returns False and leaves job.completed as it
\* was.
C10_CompletedOnFinal ==
    last.job # 0 =>
        /\ CompletedExactlyWhen(last.sent /\ last.state \in {"finished", "failed", "holding"})
        /\ NoAnswer => (~last.ret /\ job[1].completed = last.completed_before)

\* a delivered update in state holding has completed the job
C10_Witness ==
    /\ last.job # 0
    /\ last.state = "holding"
    /\ last.sent
    /\ ~last.completed_before
    /\ job[1].completed

-----------------------------------------------------------------------------
(* C11 *)

\* a call of send_state whose final update reaches the dispatcher, for a job
\* with an error code pending when finality is determined
FinalWithErrorCode ==
    /\ last = NoCall
    /\ last' # NoCall
    /\ last'.final
    /\ last'.sent
    /\ \/ job[1].piloterrorcode # 0
       \/ Len(job[1].piloterrorcodes) > 0
       \/ environ.REACHED_MAXTIME

\* C11 as stated: when a final update is built (resolved state finished,
\* failed or holding) for a job with an error code pending, the state carried
\* in the update sent to the dispatcher is failed.
C11_AsStated ==
    [][FinalWithErrorCode => last'.state = "failed"]_vars

-----------------------------------------------------------------------------
(* C12 *)

\* a call of handle_backchannel_command with a command that contains tobekilled
KillCommand ==
    /\ fn.name = "none"
    /\ fn'.name = "handle_backchannel_command"
    /\ Contains(fn'.cmd, W_tobekilled)

\* C12: after handle_backchannel_command has handled a command that contains
\* tobekilled (alone or comma-joined with other tokens) for a job whose
\* working directory exists, abort_job is set, the payload process is killed
\* if job.pid is set, and the job is failed with the kill error code, or
\* finished in the stager workflow.
C12_Kill ==
    [][(KillCommand /\ job[1].workdir) =>
          /\ abort_job'
          /\ job[1].pid => job'[1].killed
          /\ args.workflow # "stager" =>
                /\ job'[1].state = "failed"
                /\ InQueue(PANDAKILL, job'[1].piloterrorcodes)
          /\ args.workflow = "stager" => job'[1].state = "finished"]_vars

\* a comma-joined kill instruction has killed the payload of a stager job
C12_Witness ==
    /\ fn.name = "handle_backchannel_command"
    /\ fn.cmd = W_debug \o W_comma \o W_tobekilled
    /\ args.workflow = "stager"
    /\ job[1].workdir
    /\ job[1].killed
    /\ job[1].state = "finished"
    /\ abort_job

-----------------------------------------------------------------------------
(* C13 *)

\* C13: a tobekilled command that arrives when the working directory of the
\* job no longer exists is ignored: the job (its state, its error codes, its
\* process) and abort_job are left as they were.
C13_StaleKillIgnored ==
    [][(KillCommand /\ ~job[1].workdir) =>
          /\ job'[1] = job[1]
          /\ abort_job' = abort_job]_vars

\* a kill instruction for a running job with a process and without working
\* directory was handled, and nothing was aborted
C13_Witness ==
    /\ fn.name = "handle_backchannel_command"
    /\ Contains(fn.cmd, W_tobekilled)
    /\ ~job[1].workdir
    /\ job[1].pid
    /\ ~job[1].killed
    /\ job[1].state = "running"
    /\ job[1].piloterrorcodes = <<>>
    /\ ~abort_job

-----------------------------------------------------------------------------
(* C14 *)

\* C14 as stated: after handling the command debug the debug flag of the job
\* is on, and after handling the command debugoff it is off.
C14_AsStated ==
    [][(fn.name = "none" /\ fn'.name = "handle_backchannel_command") =>
          /\ fn'.cmd = W_debug => job'[1].debug
          /\ fn'.cmd = W_debugoff => ~job'[1].debug]_vars

-----------------------------------------------------------------------------
(* C15 *)

\* a call of send_heartbeat_if_time
HeartbeatCall ==
    /\ fn.name = "none"
    /\ fn'.name = "send_heartbeat_if_time"

\* C15: send_heartbeat_if_time sends a heartbeat only when job.state is
\* running, job.serverstate is neither finished nor failed, the job is not
\* completed and at least one heartbeat period has passed since the last
\* send; when it sends, the returned time is the time after the update
\* whether or not the update succeeded, and when it does not send the time
\* is returned unchanged.
C15_Heartbeat ==
    [][HeartbeatCall =>
          /\ last' # NoCall =>
                /\ job[1].state = "running"
                /\ job[1].serverstate \notin {"finished", "failed"}
                /\ ~job[1].completed
                /\ jm'.tested - jm'.update_time >=
                      (IF job[1].debug /\ job[1].debug_command # <<>> THEN 300 ELSE 1800)
                /\ last'.requested = "running"
                /\ jm'.ret = jm'.now
          /\ last' = NoCall => jm'.ret = jm'.update_time]_vars

\* a heartbeat was sent in debug mode, the update failed, and the time of
\* the last send has moved
C15_Witness ==
    /\ fn.name = "send_heartbeat_if_time"
    /\ last # NoCall
    /\ ~last.ret
    /\ job[1].debug
    /\ jm.tested - jm.update_time < 1800
    /\ jm.ret = jm.now
    /\ jm.ret # jm.update_time

-----------------------------------------------------------------------------
(* C16 *)

\* a pass of the loop of retrieve() in which proceed_with_getjob() fails
GateClosed ==
    /\ rt.pc = "loop"
    /\ rt'.getjob_requests = rt.getjob_requests + 1
    /\ hist'.gate = "closed"

\* C16: whenever proceed_with_getjob() fails, retrieve sets graceful_stop and
\* abort_job and leaves the loop without a request for a job definition in
\* that pass: no job is acquired, no failed attempt is counted, and from then
\* on the stage makes no further pass and ends.
C16_ClosedGate ==
    [][/\ GateClosed =>
            /\ graceful_stop'
            /\ abort_job'
            /\ job' = job
            /\ q' = q
            /\ rt'.jobnumber = rt.jobnumber
            /\ rt'.getjob_failures = rt.getjob_failures
            /\ hist'.streak = hist.streak
       /\ hist.gate = "closed" =>
            /\ graceful_stop
            /\ rt.pc \in {"loop", "done"}
            /\ rt'.pc \in {"loop", "done"}
            /\ rt'.getjob_requests = rt.getjob_requests
            /\ rt'.jobnumber = rt.jobnumber
            /\ hist'.gate = "closed"]_vars

\* the gate was closed after a job had been acquired, and the stage has ended
C16_Witness ==
    /\ hist.gate = "closed"
    /\ rt.pc = "done"
    /\ rt.jobnumber > 0
    /\ graceful_stop
    /\ abort_job

-----------------------------------------------------------------------------
(* C17 *)

\* the number of entries j in queue s
Entries(j, s) == Cardinality({i \in 1..Len(s) : s[i] = j})

\* a pass of the loop of validate() that takes job j from the jobs queue
Dequeued(j) ==
    /\ vpc = "loop"
    /\ ~graceful_stop
    /\ Len(q.jobs) > 0
    /\ Head(q.jobs) = j
    /\ q'.jobs = Tail(q.jobs)
    /\ rt' = rt

\* C17: every job validate() takes from the jobs queue is put in exactly one
\* of validated_jobs and failed_jobs, once: in validated_jobs with its
\* working directory made and no error code of the stage, in failed_jobs when
\* the directory could not be made or the delayed space check failed.
C17_OneQueue ==
    [][\A j \in Jobs : Dequeued(j) =>
          /\ Entries(j, q.validated_jobs) + Entries(j, q.failed_jobs) = 0
          /\ Entries(j, q'.validated_jobs) + Entries(j, q'.failed_jobs) = 1
          /\ InQueue(j, q'.validated_jobs) =>
                /\ job'[j].workdir
                /\ ~InQueue(MKDIR, job'[j].piloterrorcodes)
                /\ ~InQueue(NOLOCALSPACE, job'[j].piloterrorcodes)
          /\ (InQueue(MKDIR, job'[j].piloterrorcodes)
                \/ InQueue(NOLOCALSPACE, job'[j].piloterrorcodes)) =>
                InQueue(j, q'.failed_jobs)]_vars

\* a job that failed the delayed space check is in failed_jobs and not in
\* validated_jobs
C17_Witness ==
    \E j \in Jobs :
        /\ job[j] # NoJob
        /\ InQueue(NOLOCALSPACE, job[j].piloterrorcodes)
        /\ InQueue(j, q.failed_jobs)
        /\ ~InQueue(j, q.validated_jobs)
        /\ q.jobs = <<>>

-----------------------------------------------------------------------------
(* C18 *)

\* queue_monitor() has taken job j from finished_jobs or failed_jobs and its
\* id is not in completed_jobids
Taken(j) ==
    /\ qm.pc \in {"logwait", "final"}
    /\ qm.job = j
    /\ ~InQueue(j, q.completed_jobids)

\* C18 as stated: every job queue_monitor() takes from finished_jobs or
\* failed_jobs with its id not yet in completed_jobids is eventually put in
\* completed_jobs and completed_jobids, also a job that failed before it
\* reached monitored_payloads.
C18_AsStated ==
    \A j \in Jobs : [](Taken(j) => <>(j \in hist.released))

-----------------------------------------------------------------------------
(* C19 *)

\* queue_monitor() moves job j to completed_jobs
Released(j) ==
    /\ ~InQueue(j, q.completed_jobs)
    /\ InQueue(j, q'.completed_jobs)

\* C19 as stated: for every job that reaches a terminal state, send_state is
\* called with a terminal state at least once before the job is moved to
\* completed_jobs, also for a job failed by a kill signal or by the time
\* limit of the batch system.
C19_AsStated ==
    [][\A j \in Live : Released(j) =>
          /\ job'[j].state \in {"finished", "failed"}
          /\ "attempt" \in server'[j]]_vars

-----------------------------------------------------------------------------
(* C20 *)

\* C20: graceful_stop is monotonic: once it is set, no step of retrieve,
\* validate, create_data_payload, queue_monitor, job_monitor,
\* message_listener or control clears it.
C20_GracefulStopKept ==
    [][graceful_stop => graceful_stop']_vars

\* graceful_stop was set in a run with messages of the broker (by
\* message_listener, by retrieve after a message or by the kill signal), and
\* stages have taken steps since: retrieve has ended and abort_job is unset
C20_Witness ==
    /\ graceful_stop
    /\ world.broker # {}
    /\ ~abort_job
    /\ rt.pc = "done"
    /\ qm.pc = "done"
    /\ rt.jobnumber > 0

-----------------------------------------------------------------------------
(* C21 *)

\* a step that changes a field of job j
Mutates(j) ==
    /\ job'[j] # NoJob
    /\ job'[j] # job[j]

\* the stages whose next step can change a field of job j
Writers(j) ==
    {s \in {"retrieve", "validate", "create_data_payload", "queue_monitor", "job_monitor"} :
        CASE s = "retrieve" ->
               ENABLED ((RetrieveAttempt \/ RetrieveWait) /\ Mutates(j))
          [] s = "validate" -> ENABLED (Validate /\ Mutates(j))
          [] s = "create_data_payload" -> ENABLED (CreateDataPayload /\ Mutates(j))
          [] s = "queue_monitor" ->
               ENABLED ((QueueMonitorGet \/ QueueMonitorFinal) /\ Mutates(j))
          [] OTHER -> ENABLED ((JobMonitorStaging \/ JobMonitorPayload) /\ Mutates(j))}

\* C21 as stated: the fields of a job are written by at most one stage at a
\* time: in no reachable state can two stages each take a step that changes
\* the same job.
C21_AsStated ==
    \A j \in Live : Cardinality(Writers(j)) <= 1

-----------------------------------------------------------------------------
(* C22 *)

\* the stages that may have handled a job just before the stage s handles it
Before(s) ==
    CASE s = "retrieve" -> {"none"}
      [] s = "validate" -> {"retrieve"}
      [] s = "create_data_payload" -> {"validate"}
      [] s = "execution" -> {"create_data_payload", "execution"}
      [] s = "queue_monitor" -> {"validate", "create_data_payload", "execution"}
      [] s = "final" -> {"queue_monitor"}
      [] OTHER -> {}

\* C22: within the lifetime of a job the stages handle it in the order of the
\* pipeline: validate() after retrieve() put it on jobs, create_data_payload()
\* after validate() put it on validated_jobs, staging and execution after
\* create_data_payload(), and the final update of queue_monitor() last; no
\* stage handles a job that the stage before it has not handed over
C22_PipelineOrder == [][\A j \in Jobs : hist'.at[j] # hist.at[j] => hist.at[j] \in Before(hist'.at[j])]_vars

\* a job went through the whole pipeline and got its final update
C22_Witness == \E j \in Jobs : hist.at[j] = "final" /\ j \in collab.ended /\ j \in hist.released

-----------------------------------------------------------------------------
(* C23 *)

\* C23: the dictionary built by get_data_structure() for the state finished
\* has the key endTime and the key pilotLog, whose text has at most 1024
\* characters, whatever the length of the tail of the pilot log
C23_FinishedPayload ==
    (fn.name = "get_data_structure" /\ fn.state = "finished")
        => /\ {"endTime", "pilotLog"} \subseteq fn.data.keys
           /\ Len(fn.data.pilotLog) <= PilotLogMax

\* the dictionary of a finished job whose pilot log has a tail of more than
\* 1024 characters
C23_Witness ==
    /\ fn.name = "get_data_structure"
    /\ fn.state = "finished"
    /\ fn.exists
    /\ Len(fn.tail) > PilotLogMax

-----------------------------------------------------------------------------
(* C25 *)

\* a final update of a failed or holding job that has error codes in its
\* list while job.piloterrorcode is 0
FinalWithListOnly ==
    /\ last = NoCall
    /\ last' # NoCall
    /\ last'.final
    /\ last'.state \in {"failed", "holding"}
    /\ job[1].piloterrorcode = 0
    /\ Len(job[1].piloterrorcodes) > 0

\* C25 as stated: after a final update of a failed or holding job whose list
\* piloterrorcodes is not empty while piloterrorcode was 0, job.piloterrorcode
\* is not 0 and is the first entry of the list
C25_AsStated ==
    [][FinalWithListOnly =>
        /\ job'[1].piloterrorcode # 0
        /\ job'[1].piloterrorcode = job[1].piloterrorcodes[1]]_vars

-----------------------------------------------------------------------------
(* C26 *)

\* a step in which retrieve() enters the wait loop after a failed attempt
\* below the ceiling
EntersBackoff == rt.pc = "loop" /\ rt'.pc \in {"backoff_empty", "backoff_status"}

\* every pass of the wait loop tests graceful_stop first and then sleeps one
\* second, and the loop is left without graceful_stop only after delay sleeps
SteppedBackoff ==
    (rt.pc \in {"backoff_empty", "backoff_status"} /\ rt' # rt)
        => IF graceful_stop \/ rt.i = rt.delay
           THEN rt'.pc = "loop"
           ELSE rt'.pc = rt.pc /\ rt'.i = rt.i + 1 /\ rt'.delay = rt.delay

\* C26 as stated: after a failed attempt below the failure ceiling, a
\* transport failure or a non-success status code, the delay before the next
\* attempt is 1 s in harvester mode and 60 s otherwise, taken in steps of one
\* second with graceful_stop tested before each step
C26_AsStated ==
    [][/\ EntersBackoff => (rt'.i = 0 /\ rt'.delay = IF args.harvester THEN 1 ELSE 60)
       /\ SteppedBackoff]_vars

\* C26: after a failed attempt below the failure ceiling, the delay before
\* the next attempt is, after an empty response, 1 s in harvester mode and
\* 60 s otherwise, and after a non-success status code 60 s in either mode;
\* it is taken in steps of one second with graceful_stop tested before each
\* step
C26_RetrievalDelay ==
    [][/\ EntersBackoff =>
            /\ rt'.i = 0
            /\ rt'.delay = IF rt'.pc = "backoff_empty" /\ args.harvester THEN 1 ELSE 60
       /\ SteppedBackoff]_vars

\* a harvester pilot has slept its one second after an empty response and
\* is about to make the next attempt
C26_Witness ==
    /\ args.harvester
    /\ rt.pc = "backoff_empty"
    /\ rt.i = 1
    /\ rt.delay = 1
    /\ ~graceful_stop

-----------------------------------------------------------------------------
(* C27 *)

\* the ceiling of the requests: maximum_getjob_requests
RequestCeiling == IF args.harvester THEN 60 ELSE args.getjob_requests

\* C27: between two completed jobs, and before the first, at most N attempts
\* of retrieve() pass the gate, N being 60 with Harvester and
\* args.getjob_requests otherwise; the gate is closed on the attempt whose
\* count is above N, and the count restarts from 0 after each completed job
C27_RequestCeiling ==
    [][/\ hist'.attempts <= RequestCeiling
       /\ (rt'.getjob_requests = rt.getjob_requests + 1 /\ rt'.getjob_requests > RequestCeiling)
            => (hist'.gate = "closed" /\ graceful_stop' /\ hist'.attempts = hist.attempts)
       /\ hist'.completions = hist.completions + 1 => rt'.getjob_requests = 0]_vars

\* the gate was closed on the third request after a completed job
C27_Witness ==
    /\ hist.completions > 0
    /\ hist.gate = "closed"
    /\ hist.attempts = RequestCeiling
    /\ rt.getjob_requests = RequestCeiling + 1

-----------------------------------------------------------------------------
(* C28 *)

\* the answer of proceed_with_getjob() to the next request of retrieve() for
\* a time floor, a time since the start of the stage, and the codes of the
\* proxy and of the local space
GateAnswer(timefloor, elapsed, allow_timefloor, proxy_code, space_code) ==
    proceed_with_getjob(timefloor, elapsed, rt.jobnumber, rt.getjob_requests + 1,
                        args.getjob_requests, args.update_server, args.push, args.harvester,
                        args.verify_proxy, allow_timefloor, proxy_code, space_code,
                        environ, traces).ok

\* a pass of retrieve() that calls proceed_with_getjob()
Request == rt'.getjob_requests = rt.getjob_requests + 1

\* C28: for the first job (jobnumber = 0) the answer of the gate is the same
\* for every time floor and every time since the start of the stage; for a
\* later job the gate is closed when the time floor is 0 or when more than
\* timefloor seconds have passed, so that with a time floor of 0 the request
\* after the first job closes the gate and no second job is acquired
C28_TimeFloor ==
    [][Request =>
        /\ rt.jobnumber = 0 =>
              \A proxy_code \in world.proxy_codes, space_code \in world.space_codes :
              \A timefloor \in 0..(MaxElapsed + 1), elapsed \in 0..(MaxElapsed + 1), allow_timefloor \in BOOLEAN :
                GateAnswer(timefloor, elapsed, allow_timefloor, proxy_code, space_code)
                    = GateAnswer(args.timefloor, 0, TRUE, proxy_code, space_code)
        /\ rt.jobnumber > 0 =>
              \A proxy_code \in world.proxy_codes, space_code \in world.space_codes :
              \A timefloor \in 0..(MaxElapsed + 1), elapsed \in 0..(MaxElapsed + 1) :
                (timefloor = 0 \/ elapsed > timefloor)
                    => /\ ~GateAnswer(timefloor, elapsed, TRUE, proxy_code, space_code)
                       /\ ~GateAnswer(timefloor, elapsed, FALSE, proxy_code, space_code)
        /\ (rt.jobnumber > 0 /\ args.timefloor = 0)
              => (hist'.gate = "closed" /\ rt'.jobnumber = 1)]_vars

\* with a time floor of 0 the first job was acquired and has completed, and
\* the next request closed the gate
C28_Witness ==
    /\ args.timefloor = 0
    /\ rt.jobnumber = 1
    /\ hist.completions = 1
    /\ hist.gate = "closed"

-----------------------------------------------------------------------------
(* C29 *)

\* a step that clears abort_job or job_aborted
Clears == (abort_job /\ ~abort_job') \/ (job_aborted /\ ~job_aborted')

\* a step in which retrieve() takes the completion entry of its job
TakesCompletion ==
    /\ rt.pc = "wait_job"
    /\ Len(q.completed_jobs) > 0
    /\ Head(q.completed_jobs) = rt.job
    /\ Len(q'.completed_jobs) = 0
    /\ hist'.completions = hist.completions + 1

\* C29: abort_job and job_aborted are cleared only by retrieve(), only in the
\* step in which it takes the completion entry of the current job, and both
\* in that step, before the next request; no other step clears either flag
C29_ClearedAtBoundary ==
    [][/\ Clears => TakesCompletion
       /\ TakesCompletion => (~abort_job' /\ ~job_aborted' /\ rt'.pc = "loop"
                               /\ rt'.getjob_requests = 0)]_vars

\* the job was ordered to be killed and has failed, which set both flags,
\* and retrieve() has taken its completion entry and cleared them
C29_Witness ==
    /\ hist.completions = 1
    /\ rt.pc = "loop"
    /\ rt.getjob_requests = 0
    /\ "failed" \in server[1]
    /\ ~abort_job
    /\ ~job_aborted

-----------------------------------------------------------------------------
(* C30 *)

\* a pass of validate() that finds an error in job j and puts it in failed_jobs
ValidationError(j) ==
    /\ vpc = "loop"
    /\ Len(q.jobs) > 0
    /\ Head(q.jobs) = j
    /\ hist'.at[j] = "validate"
    /\ InQueue(j, q'.failed_jobs)

\* C30 as stated: a validation error (bad job content, failure to create the
\* working directory, not enough local space) concerns the job alone: it
\* does not set graceful_stop and does not end validate(), so that a job put
\* on jobs afterwards is still taken and validated
C30_AsStated ==
    [][\A j \in Jobs : ValidationError(j) => (graceful_stop' = graceful_stop /\ vpc' = "loop")]_vars

-----------------------------------------------------------------------------
(* C31 *)

\* a pass of create_data_payload() in the stager workflow that takes a job
\* without input data
StagerHandoff(j) ==
    /\ args.workflow = "stager"
    /\ Handoff
    /\ Head(q.validated_jobs) = j
    /\ ~job[j].indata

\* the pass has sent an update with state running for job j, which had none
\* before, and has ended the pilot; the job is running afterwards unless the
\* answer to the update ordered it to be killed
RunningSentAndStopped(j) ==
    /\ job[j].serverstate = ""
    /\ job'[j].serverstate # ""
    /\ job'[j].state = "running" \/ abort_job'
    /\ graceful_stop'
    /\ job_aborted'

\* C31 as stated: in the stager workflow no job is ever put on payloads, and
\* a job without input data makes create_data_payload() send an update with
\* state running and end the pilot (graceful_stop set)
C31_AsStated ==
    /\ [](args.workflow = "stager" => q.payloads = <<>>)
    /\ [][\A j \in Jobs : StagerHandoff(j) => RunningSentAndStopped(j)]_vars

\* C31: in the stager workflow no job is ever put on payloads; in a stager
\* pod a job without input data makes create_data_payload() send an update
\* with state running and end the pilot (graceful_stop and job_aborted set);
\* outside a pod the job is only put on finished_data_in: nothing is sent and
\* graceful_stop is left as it is
C31_StagerHandoff ==
    /\ [](args.workflow = "stager" => q.payloads = <<>>)
    /\ [][\A j \in Jobs : StagerHandoff(j) =>
            /\ InQueue(j, q'.finished_data_in)
            /\ IF args.pod
               THEN RunningSentAndStopped(j)
               ELSE /\ job'[j] = job[j]
                    /\ graceful_stop' = graceful_stop
                    /\ job_aborted' = job_aborted]_vars

\* a stager pod has reported its job without input data and has stopped
C31_Witness ==
    \E j \in Live :
        /\ args.workflow = "stager"
        /\ args.pod
        /\ ~job[j].indata
        /\ InQueue(j, q.finished_data_in)
        /\ job[j].state = "running"
        /\ job[j].serverstate # ""
        /\ graceful_stop

-----------------------------------------------------------------------------
(* C32 *)

\* a pass of queue_monitor() that takes job j from failed_jobs
TakesFailed(j) ==
    /\ qm.pc = "loop"
    /\ Len(q.failed_jobs) > 0
    /\ Head(q.failed_jobs) = j
    /\ Len(q'.failed_jobs) < Len(q.failed_jobs)
    /\ qm'.job = j

\* the pass puts job j on data_out for a stage-out of the log alone exactly
\* when no transfer of the log is recorded for it; put_in_queue() adds no
\* second entry for a job that is on data_out already
LogOrderedWhenNotDone(j) ==
    IF job[j].log_transfer = LOG_TRANSFER_NOT_DONE
    THEN /\ InQueue(j, q'.data_out)
         /\ q'.data_out \in {q.data_out, Append(q.data_out, j)}
         /\ job'[j].stageout = "log"
    ELSE /\ q'.data_out = q.data_out
         /\ job'[j].stageout = job[j].stageout

-----------------------------------------------------------------------------
(* C33 *)

\* the time of the hard kill of the batch system after the signal, in seconds
HardKill == 120

\* C33 as stated: for every time since the kill signal, that time plus
\* max_wait_time is at most 120 s, so that the wait for the stage-out of an
\* aborted job ends before the hard kill of the batch system
C33_AsStated ==
    (fn.name \in {"waiting", "wait_for_aborted_job_stageout"} /\ ~fn.raised /\ fn.measured >= 0)
        => fn.measured + fn.max_wait_time <= HardKill

-----------------------------------------------------------------------------
(* C34 *)

\* stage-in is pending: a job is in current_data_in, or finished_data_in is
\* empty
StagingIsPending == Len(q.current_data_in) > 0 \/ Len(q.finished_data_in) = 0

\* C34: while stage-in is pending and abort_job is not set, no pass of
\* job_monitor() looks at the monitored payloads, so that job_monitor_tasks()
\* is not called: the pass leaves the trace and failed_payloads alone, kills
\* nothing and attaches no error code; it changes at most the job in
\* current_data_in, by the heartbeat that is due for a running job or by
\* the order to stage out the log of a failed one
C34_NoProbeWhileStaging ==
    /\ []((StagingIsPending /\ ~abort_job) => ~ENABLED JobMonitorPayload)
    /\ [][(StagingIsPending /\ ~abort_job /\ NextPass)
            => /\ traces' = traces
               /\ q'.failed_payloads = q.failed_payloads
               /\ \A j \in Jobs : job'[j] # job[j] =>
                     /\ InQueue(j, q.current_data_in)
                     /\ heartbeat_wanted(job[j], TRUE) \/ job[j].state = "failed"
                     /\ job'[j].piloterrorcodes = job[j].piloterrorcodes
                     /\ job'[j].killed = job[j].killed]_vars

\* stage-in is pending while a running job is in monitored_payloads, and a
\* pass has sent the heartbeat of the job in current_data_in
C34_Witness ==
    /\ jm.pc = "loop"
    /\ ~abort_job
    /\ Len(q.current_data_in) > 0
    /\ Len(q.monitored_payloads) > 0
    /\ job[1].state = "running"
    /\ job[1].serverstate = "running"

-----------------------------------------------------------------------------
(* C35 *)

\* a pass of job_monitor() calls job_monitor_tasks() for job j
Probes(j) ==
    /\ JobMonitorPayload
    /\ Len(q.monitored_payloads) > 0
    /\ j = Head(q.monitored_payloads)
    /\ job[j].state \notin {"finished", "failed"}
    /\ synthesized_error_code(abort_job, signal, environ.REACHED_MAXTIME) = 0

\* C35, as stated: when job_monitor_tasks() reports that the proxy is about to
\* expire and no new proxy can be downloaded, the payload is killed and
\* NOVOMSPROXY is attached to the job
C35_AsStated ==
    [][\A j \in Jobs : (world = Expiring /\ Probes(j))
          => /\ job'[j].killed
             /\ InQueue(NOVOMSPROXY, job'[j].piloterrorcodes)]_vars

-----------------------------------------------------------------------------
(* C36 *)

\* a pass of job_monitor() looks at job j, which fail_monitored_job() has
\* failed before
LooksAtFailed(j) ==
    /\ JobMonitorPayload
    /\ Len(q.monitored_payloads) > 0
    /\ j = Head(q.monitored_payloads)
    /\ job[j].state = "failed"
    /\ InQueue(j, q.failed_payloads)

\* C36: when job_monitor_tasks() returns a code that is none of the proxy,
\* kill and lease codes (here LOOPINGJOB), the job is failed, carries the
\* code, the trace's error_code is the code and the job is on
\* failed_payloads; a later pass over that job sends no preliminary update,
\* attaches nothing, and leaves the trace and failed_payloads as they are
C36_FailPath ==
    /\ [][\A j \in Jobs : (world = Looping /\ Probes(j))
            => /\ job'[j].state = "failed"
               /\ InQueue(LOOPINGJOB, job'[j].piloterrorcodes)
               /\ traces'.error_code = LOOPINGJOB
               /\ InQueue(j, q'.failed_payloads)]_vars
    /\ [][\A j \in Jobs : LooksAtFailed(j)
            => /\ job'[j].state = "failed"
               /\ job'[j].serverstate = job[j].serverstate
               /\ job'[j].killed = job[j].killed
               /\ signal \/ job'[j].piloterrorcodes = job[j].piloterrorcodes
               /\ traces' = traces
               /\ q'.failed_payloads = q.failed_payloads]_vars

\* fail_monitored_job() has failed the job for LOOPINGJOB
C36_Witness ==
    /\ world = Looping
    /\ job[1].state = "failed"
    /\ InQueue(LOOPINGJOB, job[1].piloterrorcodes)
    /\ traces.error_code = LOOPINGJOB
    /\ InQueue(1, q.failed_payloads)

-----------------------------------------------------------------------------
(* C37 *)

\* retrieve, validate and create_data_payload have ended
StagesEnded == rt.pc = "done" /\ vpc = "done" /\ cpc = "done"

\* C37: once graceful_stop is set, retrieve, validate and create_data_payload
\* end, wherever they are: in the wait for a job on a queue, in the sleep
\* after a failed request, in the wait for a message of the broker or in the
\* wait for the completion of the job
C37_StagesEnd == graceful_stop ~> StagesEnded

\* the stages have ended, and retrieve was waiting for a message of the
\* broker when the kill signal set graceful_stop: it had passed the gate
\* once and has taken no message, so that it has neither a job nor a failure
C37_Witness ==
    /\ graceful_stop
    /\ signal
    /\ StagesEnded
    /\ args.subscribe_to_msgsvc
    /\ rt.jobnumber = 0
    /\ hist.attempts = 1
    /\ hist.streak = 0
    /\ collab.messages = <<>>

-----------------------------------------------------------------------------
(* C38 *)

\* message_listener() receives message m and puts it in the messages queue
Received(m) ==
    /\ MessageListener
    /\ ~graceful_stop
    /\ ~InQueue(m, collab.messages)
    /\ collab'.messages = Append(collab.messages, m)

\* C38, as stated: a kill_task message of the shape {msg_type, taskid} is put
\* in the messages queue, graceful_stop is set and the loop ends normally; a
\* finish_task message is put in the queue and the loop ends without
\* graceful_stop being set; a get_job message is put in the queue and the
\* loop goes on
C38_AsStated ==
    [][/\ Received(Message("kill_task", "absent"))
            => (graceful_stop' /\ collab'.listener = "done")
       /\ Received(Message("finish_task", "absent"))
            => (~graceful_stop' /\ collab'.listener = "done")
       /\ Received(Message("get_job", "absent"))
            => (~graceful_stop' /\ collab'.listener = "loop")]_vars

-----------------------------------------------------------------------------
(* C39 *)

\* C39, as stated: when send_state() returns from a final update, whether it
\* was delivered, failed, was written to a file or was skipped for a fake
\* job, SERVER_UPDATE is not UPDATING
C39_AsStated ==
    [][(last = NoCall /\ last' # NoCall /\ last'.final)
        => environ'.SERVER_UPDATE # SERVER_UPDATE_UPDATING]_vars

-----------------------------------------------------------------------------
(* C40 *)

\* the states that have reached the dispatcher, in order: a state that is
\* not finished or failed comes after one that is
Regressed ==
    \E i, k \in 1..Len(fn.wire) :
        /\ i < k
        /\ fn.wire[i] \in {"finished", "failed"}
        /\ fn.wire[k] \notin {"finished", "failed"}

\* C40, as stated: once job.serverstate is finished or failed no call
\* changes it, and under every interleaving of the heartbeats and the final
\* update no state other than finished or failed reaches the dispatcher
\* after finished or failed has
C40_AsStated ==
    /\ [][job[1].serverstate \in {"finished", "failed"}
            => job'[1].serverstate = job[1].serverstate]_vars
    /\ [](~Regressed)
====
